---- MODULE Spec2Model ----
(***************************************************************************)
(* Study-plan engine of selviaISP: capacity, student state and feedback,   *)
(* the Pass 1 remaining-ratio allocator, the day builder that drains each  *)
(* day into blocks, and the earlier unlock-based generatePlan.             *)
(*                                                                         *)
(* Encoding.  Unit "Unidad k" is the integer k (sortedUnitKeys orders the  *)
(* keys by that integer); 0 stands for null / no unit.  ISO dates are      *)
(* triples <<year, month, day>>, compared the way the zero-padded strings  *)
(* compare.  Ratios of integers are compared by cross-multiplication.      *)
(*                                                                         *)
(* Availability.  availabilityHoursByWeekday holds doubles; an entry is    *)
(* given here by a whole number q of quarter minutes and stands for the    *)
(* double nearest q / 240 hours (index 0 = Monday .. 6 = Sunday), so that  *)
(* 4.1 hours is 984 and 14.75 minutes is 59.  The program works in         *)
(* IEEE-754 doubles: hours * 60 and the sums of hours and of minutes are   *)
(* rounded.  A double of minutes is the record [quarters |-> q, eps |-> e],*)
(* the number (q + e * 2^-52) / 4; a double x of hours is the record       *)
(* [quarters |-> q, err |-> e] with 240 * x = q + e * 2^-58.  Block        *)
(* durations and the minutes of a day of the Pass 1 plan are whole         *)
(* numbers of minutes.                                                     *)
(***************************************************************************)
EXTENDS Integers, Sequences, FiniteSets, TLC

(***************************************************************************)
(* Program constants                                                       *)
(***************************************************************************)
MAX_BLOCK_DURATION == 60
MIN_BLOCK_DURATION == 15
THEORY_ENVELOPE_MINUTES == 510
STUDY_THEME_MINUTES == 240
START_NEXT_UNIT_THRESHOLD == 120
STUDY_THEME_COMPLETE_THRESHOLD == 240
REVIEW_MINUTES == 60
PODCAST_MINUTES == 60
FLASHCARD_MINUTES == 60
QUIZ_MAX_MINUTES == 90
WEEKLY_MINIMUM_MINUTES == 60
QUIZ_FAIL_THRESHOLD == 60
REVIEW_BOOST_MINUTES == 30
SESSION_FEEDBACK_STEP == 15

(***************************************************************************)
(* Bounds of the model                                                     *)
(***************************************************************************)
\* Largest number of curriculum units (inputs.themesCount) explored.
MaxUnits == 3

TheoryActivities == {"STUDY_THEME", "REVIEW", "PODCAST", "FLASHCARD", "QUIZ"}
SecondaryActivities == {"REVIEW", "PODCAST", "FLASHCARD", "QUIZ"}
CasesActivities == {"CASE_PRACTICE", "CASE_MOCK"}
Activities == TheoryActivities \cup CasesActivities \cup {"PROGRAMMING_BLOCK"}

Max2(a, b) == IF a >= b THEN a ELSE b
Min2(a, b) == IF a <= b THEN a ELSE b
\* Math.ceil(n / k) for an integer n and k > 0.
CeilDiv(n, k) == -((-n) \div k)

(***************************************************************************)
(* date.ts: local calendar-day arithmetic on ISO dates                     *)
(***************************************************************************)
IsLeap(y) == (y % 4 = 0 /\ y % 100 # 0) \/ y % 400 = 0

DaysInMonth(y, m) ==
    IF m = 2 THEN (IF IsLeap(y) THEN 29 ELSE 28)
    ELSE IF m \in {4, 6, 9, 11} THEN 30 ELSE 31

DaysInYear(y) == IF IsLeap(y) THEN 366 ELSE 365

\* Day counts start at 1 January 2025, a Wednesday (getDay() = 3).
RECURSIVE DaysBeforeYear(_)
DaysBeforeYear(y) ==
    IF y <= 2025 THEN 0 ELSE DaysBeforeYear(y - 1) + DaysInYear(y - 1)

RECURSIVE DaysBeforeMonth(_, _)
DaysBeforeMonth(y, m) ==
    IF m <= 1 THEN 0 ELSE DaysBeforeMonth(y, m - 1) + DaysInMonth(y, m - 1)

\* new Date(year, month, day): the day count of a calendar date.
DateOrdinal(date) ==
    DaysBeforeYear(date[1]) + DaysBeforeMonth(date[1], date[2]) + date[3] - 1

RECURSIVE MonthDayOf(_, _, _)
MonthDayOf(y, m, n) ==
    IF n < DaysInMonth(y, m) THEN <<y, m, n + 1>>
    ELSE MonthDayOf(y, m + 1, n - DaysInMonth(y, m))

RECURSIVE YearDayOf(_, _)
YearDayOf(y, n) ==
    IF n < DaysInYear(y) THEN MonthDayOf(y, 1, n)
    ELSE YearDayOf(y + 1, n - DaysInYear(y))

\* Variant of toLocalISOString: the date is formatted in UTC (toISOString) east
\* of Greenwich, where local midnight is still the previous day.
toLocalISOStringUTC(n) == YearDayOf(2025, n - 1)

\* toLocalISOString(new Date(...)): the calendar date of a day count (>= 0).
toLocalISOString(n) == YearDayOf(2025, n)

addDays(isoDate, days) == toLocalISOString(DateOrdinal(isoDate) + days)

\* 0 = Sunday .. 6 = Saturday
getWeekday(isoDate) == (DateOrdinal(isoDate) + 3) % 7

diffDays(isoDate1, isoDate2) == DateOrdinal(isoDate2) - DateOrdinal(isoDate1)

\* String comparison of two ISO dates: a <= b.
IsoLeq(a, b) ==
    \/ a[1] < b[1]
    \/ a[1] = b[1] /\ a[2] < b[2]
    \/ a[1] = b[1] /\ a[2] = b[2] /\ a[3] <= b[3]

(***************************************************************************)
(* capacity.ts: calculateCapacity                                          *)
(***************************************************************************)
\* Variant of availabilityIndex: the getDay() value is used as the index.
availabilityIndexSundayFirst(weekday) == weekday

\* getWeekday (0 = Sun .. 6 = Sat) to availability index (0 = Mon .. 6 = Sun)
availabilityIndex(weekday) == IF weekday = 0 THEN 6 ELSE weekday - 1

\* availabilityHoursByWeekday of a week given in whole minutes per day
WeekOfMinutes(w) == [i \in 1..7 |-> 4 * w[i]]

\* 2^k for k in 0..30.  The errors of a sum are counted in units of 2^-52;
\* a sum below 1 has a finer unit in the last place and is not rounded, which
\* the unit 1 for k < 0 expresses.
Pow2(k) ==
    IF k < 0 THEN 1
    ELSE << 1, 2, 4, 8, 16, 32, 64, 128, 256, 512, 1024, 2048, 4096, 8192, 16384,
            32768, 65536, 131072, 262144, 524288, 1048576, 2097152, 4194304,
            8388608, 16777216, 33554432, 67108864, 134217728, 268435456,
            536870912, 1073741824 >>[k + 1]

\* exponent of the binade of n: 2^p <= n < 2^(p + 1); 0 for n = 0
Log2Floor(n) ==
    IF n <= 1 THEN 0
    ELSE CHOOSE p \in 1..30 : Pow2(p) <= n /\ (p = 30 \/ n < Pow2(p + 1))

\* e / U rounded to the nearest integer, ties to the even one (the rounding
\* of every double operation, U being the unit in the last place)
RoundHalfEven(e, U) ==
    LET f == e \div U
        rm == e % U
    IN  IF 2 * rm < U THEN f
        ELSE IF 2 * rm > U THEN f + 1
        ELSE IF f % 2 = 0 THEN f ELSE f + 1

\* The double of hours nearest q / 240: an availabilityHoursByWeekday entry
\* of q quarter minutes, and `minutes / 60` for q = 4 * minutes.  Division by
\* 4 is exact, so this is the rounding of q / 60: its unit in the last place
\* is 2^j * 2^-58 and r is the remainder of q * 2^(58 - j) by 60 (2^k mod 60
\* is 4, 8, 16, 32 from k = 2), never 30.
DoubleOfHours(q) ==
    IF q = 0 THEN [quarters |-> 0, err |-> 0]
    ELSE LET j == Log2Floor((64 * q) \div 60)
             r == ((q % 60) * <<4, 8, 16, 32>>[((56 - j) % 4) + 1]) % 60
         IN  [quarters |-> q,
              err |-> IF r < 30 THEN -(r * Pow2(j)) ELSE (60 - r) * Pow2(j)]

\* a + b on doubles of hours.  The exact sum s has 240 * s = Q + Es * 2^-58;
\* rem(jj) is s * 2^60 modulo 2^jj (2^k mod 15 is 1, 2, 4, 8), and s is
\* rounded to a multiple of its unit in the last place.
AddHours(a, b) ==
    LET Q == a.quarters + b.quarters
        Es == a.err + b.err
        j0 == Log2Floor((64 * Q) \div 60)
        j == IF 64 * Q = 60 * Pow2(j0) /\ Es < 0 THEN j0 - 1 ELSE j0
        U == Pow2(j)
        rem(jj) ==
            ( ( 4 * Pow2(jj) * (((Q % 15) * <<1, 2, 4, 8>>[((56 - jj) % 4) + 1]) % 15) + Es )
                % (60 * Pow2(jj)) ) \div 60
        r == rem(j)
        up == 2 * r > U \/ (2 * r = U /\ rem(j + 1) # r)
    IN  IF Q = 0 THEN [quarters |-> 0, err |-> 0]
        ELSE [quarters |-> Q, err |-> IF up THEN Es + 60 * (U - r) ELSE Es - 60 * r]

\* x >= hours for a double x of hours and a whole number of hours
HoursAtLeast(x, hours) ==
    x.quarters > hours * 240 \/ (x.quarters = hours * 240 /\ x.err >= 0)

\* hours * 60 for the entry of q quarter minutes: the exact product
\* (q + err * 2^-58) / 4 rounded to a multiple of its unit in the last place
hoursTimes60(q) ==
    IF q = 0 THEN [quarters |-> 0, eps |-> 0]
    ELSE LET h == DoubleOfHours(q)
             p0 == Log2Floor(q)
             px == IF q = Pow2(p0) /\ h.err < 0 THEN p0 - 1 ELSE p0
         IN  [quarters |-> q, eps |-> RoundHalfEven(h.err, Pow2(px + 6)) * Pow2(px)]

\* The weeks on which hours * 60 is a whole number of minutes every day
WholeMinuteWeek(avail) ==
    \A i \in 1..7 : hoursTimes60(avail[i]).eps = 0 /\ avail[i] % 4 = 0

\* a + b on doubles of minutes
AddMinutes(a, b) ==
    LET Q == a.quarters + b.quarters
        Es == a.eps + b.eps
        absQ == IF Q < 0 THEN -Q ELSE Q
        p0 == Log2Floor(absQ)
        px == IF absQ = Pow2(p0) /\ ((Q > 0 /\ Es < 0) \/ (Q < 0 /\ Es > 0))
              THEN p0 - 1 ELSE p0
    IN  IF Q = 0 THEN [quarters |-> 0, eps |-> Es]
        ELSE [quarters |-> Q, eps |-> RoundHalfEven(Es, Pow2(px)) * Pow2(px)]

\* The double of a whole number of minutes
WholeMinutes(minutes) == [quarters |-> 4 * minutes, eps |-> 0]

\* x - minutes for a double x of minutes and a whole number of minutes
LessMinutes(x, minutes) == AddMinutes(x, WholeMinutes(-minutes))

\* x > 0 on a double of minutes
Positive(x) == x.quarters > 0 \/ (x.quarters = 0 /\ x.eps > 0)

\* minutes <= x for a whole number of minutes and a double x of minutes
AtMost(minutes, x) ==
    4 * minutes < x.quarters \/ (4 * minutes = x.quarters /\ x.eps >= 0)

\* Variant of MathRound: Math.ceil(x), the minutes are rounded up.
MathCeil(x) ==
    IF x.quarters % 4 = 0
    THEN (x.quarters \div 4) + (IF x.eps > 0 THEN 1 ELSE 0)
    ELSE (x.quarters \div 4) + 1

\* Math.round(x) of a double of minutes: the floor of x + 1/2
MathRound(x) ==
    IF (x.quarters + 2) % 4 = 0 /\ x.eps < 0
    THEN ((x.quarters + 2) \div 4) - 1
    ELSE (x.quarters + 2) \div 4

\* inputs.availabilityHoursByWeekday[idx] * 60 for the day at offset d
hoursTimes60OfDay(avail, today, d) ==
    hoursTimes60(avail[availabilityIndex(getWeekday(addDays(today, d))) + 1])

\* Step 1 of the day loop: the availability of the day at offset d in
\* minutes, hours * 60 rounded to the nearest minute
MinutesOfDay(avail, today, d) == MathRound(hoursTimes60OfDay(avail, today, d))

RECURSIVE SumHoursTimes60(_, _, _, _, _)
\* availableEffectiveMinutes after the passes of `+= hours * 60` for the days
\* at offsets from .. to - 1, in that order, starting from acc (the range is
\* halved, and the first half is a value before the second half starts, to
\* keep the evaluation shallow)
SumHoursTimes60(acc, avail, today, from, to) ==
    IF to <= from THEN acc
    ELSE IF to = from + 1
    THEN AddMinutes(acc, hoursTimes60OfDay(avail, today, from))
    ELSE LET mid == (from + to) \div 2
         IN  CHOOSE sum \in { SumHoursTimes60(half, avail, today, mid, to) :
                                half \in { SumHoursTimes60(acc, avail, today, from, mid) } } :
                 TRUE

\* part / whole >= 1 / k as the doubles compare (k = 5 for 0.2, 10 for 0.1),
\* for whole > 0.  The doubles 0.2 and 0.1 lie above 1/5 and 1/10, and the
\* quotients that round up to them are those from (1 / k) * (1 - 2^-56) on:
\* when the quarter minutes are level the rounding errors decide.
RatioAtLeast(part, whole, k) ==
    \/ k * part.quarters > whole.quarters
    \/ /\ k * part.quarters = whole.quarters
       /\ \/ 16 * (k * part.eps - whole.eps) > -whole.quarters
          \/ 16 * (k * part.eps - whole.eps) = -whole.quarters /\ whole.eps >= 0

\* ratio = whole > 0 ? part / whole : 0, graded good from 0.2 and edge from 0.1
BufferStatus(part, whole) ==
    IF Positive(whole) /\ RatioAtLeast(part, whole, 5) THEN "good"
    ELSE IF Positive(whole) /\ RatioAtLeast(part, whole, 10) THEN "edge"
    ELSE "warning"

\* Variant of EffectivePlanningWeeks: one reserved week instead of two.
EffectivePlanningWeeksOneReserved(totalWeeks) == Max2(0, totalWeeks - 1)

EffectivePlanningWeeks(totalWeeks) == Max2(0, totalWeeks - 2)

calculateCapacity(inp) ==
    LET totalDays == diffDays(inp.today, inp.examDate)
        totalWeeks == CeilDiv(totalDays, 7)
        epw == EffectivePlanningWeeks(totalWeeks)
        available == SumHoursTimes60(WholeMinutes(0), inp.avail, inp.today, 0, epw * 7)
        theoryPlanned == inp.unitsCount * THEORY_ENVELOPE_MINUTES
        casesPlanned == (theoryPlanned * 6) \div 10
        programmingPlanned == (theoryPlanned * 4) \div 10
        plannedMinutes == theoryPlanned + casesPlanned + programmingPlanned
        buffer == LessMinutes(available, plannedMinutes)
    IN  [ totalWeeks |-> totalWeeks,
          effectivePlanningWeeks |-> epw,
          availableEffectiveMinutes |-> available,
          unitsCount |-> inp.unitsCount,
          theoryPlanned |-> theoryPlanned,
          casesPlanned |-> casesPlanned,
          programmingPlanned |-> programmingPlanned,
          plannedMinutes |-> plannedMinutes,
          bufferMinutes |-> buffer,
          bufferStatus |-> BufferStatus(buffer, available) ]

(***************************************************************************)
(* state.ts: StudentState, deriveInitialState, applyFeedbackEvents         *)
(***************************************************************************)
ACTIVITY_TARGET_DEFAULTS ==
    [ a \in Activities |->
        CASE a = "REVIEW" -> 30
          [] a = "FLASHCARD" -> 30
          [] a = "QUIZ" -> 15
          [] OTHER -> 60 ]

ACTIVITY_BOUNDS ==
    [ a \in Activities |->
        CASE a \in {"REVIEW", "FLASHCARD"} -> [min |-> 15, max |-> 60]
          [] a = "QUIZ" -> [min |-> 10, max |-> 30]
          [] OTHER -> [min |-> 30, max |-> 90] ]

UnitMinutesTotal(r) == r.studyTheme + r.review + r.podcast + r.flashcard + r.quiz

RECURSIVE SumUnits(_, _, _)
\* sum over Object.values(state.units) of the unit's `field` minutes
SumUnits(units, field, n) ==
    IF n <= 0 THEN 0
    ELSE SumUnits(units, field, n - 1) + UnitMinutesTotal(units[n][field])

NumUnitsOf(units) == Cardinality(DOMAIN units)

computeTotalRequired(units, global) ==
    SumUnits(units, "required", NumUnitsOf(units))
        + global.casesRequired + global.programmingRequired

computeTotalDone(units, global) ==
    SumUnits(units, "done", NumUnitsOf(units))
        + global.casesDone + global.programmingDone

\* Variant of computeSlack: the minutes done are taken off the capacity too.
computeSlackSpendingCapacity(effectiveCapacity, requiredTotal, doneTotal) ==
    LET requiredFuture == Max2(0, requiredTotal - doneTotal)
        capacityLeft == LessMinutes(effectiveCapacity, doneTotal)
        slackMinutes == LessMinutes(capacityLeft, requiredFuture)
    IN  [ effectiveCapacityFuture |-> capacityLeft,
          requiredMinutesFuture |-> requiredFuture,
          slackMinutes |-> slackMinutes,
          status |-> BufferStatus(slackMinutes, capacityLeft) ]

computeSlack(effectiveCapacity, requiredTotal, doneTotal) ==
    LET requiredFuture == Max2(0, requiredTotal - doneTotal)
        slackMinutes == LessMinutes(effectiveCapacity, requiredFuture)
    IN  [ effectiveCapacityFuture |-> effectiveCapacity,
          requiredMinutesFuture |-> requiredFuture,
          slackMinutes |-> slackMinutes,
          status |-> BufferStatus(slackMinutes, effectiveCapacity) ]

deriveInitialState(inp, cap) ==
    LET units == [ i \in 1..cap.unitsCount |->
                    [ required |-> [ studyTheme |-> STUDY_THEME_MINUTES,
                                     review |-> REVIEW_MINUTES,
                                     podcast |-> PODCAST_MINUTES,
                                     flashcard |-> FLASHCARD_MINUTES,
                                     quiz |-> QUIZ_MAX_MINUTES ],
                      done |-> [ studyTheme |-> 0, review |-> 0, podcast |-> 0,
                                 flashcard |-> 0, quiz |-> 0 ] ] ]
        global == [ casesRequired |-> cap.casesPlanned, casesDone |-> 0,
                    programmingRequired |-> cap.programmingPlanned,
                    programmingDone |-> 0 ]
    IN  [ meta |-> [version |-> 1, todayISO |-> inp.today, examDate |-> inp.examDate],
          units |-> units,
          global |-> global,
          slack |-> computeSlack(cap.availableEffectiveMinutes,
                                 computeTotalRequired(units, global),
                                 computeTotalDone(units, global)),
          prefs |-> ACTIVITY_TARGET_DEFAULTS ]

\* done field of UnitMinutes that a theory activity is counted in
DoneField(activity) ==
    CASE activity = "STUDY_THEME" -> "studyTheme"
      [] activity = "REVIEW" -> "review"
      [] activity = "PODCAST" -> "podcast"
      [] activity = "FLASHCARD" -> "flashcard"
      [] activity = "QUIZ" -> "quiz"

\* Variant of QuizFailed: scores above the threshold count as failed.
QuizFailedAbove(score) == score > QUIZ_FAIL_THRESHOLD

\* Variant of QuizFailed: a score equal to the threshold fails too.
QuizFailedAtThreshold(score) == score <= QUIZ_FAIL_THRESHOLD

\* event.score < QUIZ_FAIL_THRESHOLD
QuizFailed(score) == score < QUIZ_FAIL_THRESHOLD

\* Variant of ClampTarget: the lower bound is not applied.
ClampTargetAbove(bounds, newTarget) == Min2(bounds.max, newTarget)

\* Math.max(bounds.min, Math.min(bounds.max, newTarget))
ClampTarget(bounds, newTarget) == Max2(bounds.min, Min2(bounds.max, newTarget))

\* A StudentState in memory.  The heap is the sequence of the objects
\* allocated so far and an address is an index into it.  The state object
\* holds the addresses of its members meta, units, global, slack and prefs;
\* the units object holds the address of each unit, a unit the addresses of
\* its required and done minutes; the other objects hold values only.
\* StateObjects(st, base) are the objects of the state value st, laid out from
\* address base + 1 on, the state object first.
StateObjects(st, base) ==
    [ a \in 1..(6 + 3 * NumUnitsOf(st.units)) |->
        IF a = 1 THEN [ meta |-> base + 2, units |-> base + 3, global |-> base + 4,
                        slack |-> base + 5, prefs |-> base + 6 ]
        ELSE IF a = 2 THEN st.meta
        ELSE IF a = 3 THEN [ k \in DOMAIN st.units |-> base + 3 * k + 4 ]
        ELSE IF a = 4 THEN st.global
        ELSE IF a = 5 THEN st.slack
        ELSE IF a = 6 THEN st.prefs
        ELSE IF a % 3 = 1 THEN [ required |-> base + a + 1, done |-> base + a + 2 ]
        ELSE IF a % 3 = 2 THEN st.units[(a - 5) \div 3].required
        ELSE st.units[(a - 6) \div 3].done ]

\* JSON.stringify(state): the value read through the state object at `root`
ReadState(heap, root) ==
    LET units == heap[heap[root].units]
    IN  [ meta |-> heap[heap[root].meta],
          units |-> [ k \in DOMAIN units |->
                        [ required |-> heap[heap[units[k]].required],
                          done |-> heap[heap[units[k]].done] ] ],
          global |-> heap[heap[root].global],
          slack |-> heap[heap[root].slack],
          prefs |-> heap[heap[root].prefs] ]

\* Variant of jsonClone: { ...state }, a new state object whose members are
\* the argument's own objects.
spreadClone(heap, root) ==
    [ heap |-> Append(heap, heap[root]), root |-> Len(heap) + 1 ]

\* state.ts 311: JSON.parse(JSON.stringify(state)), new objects throughout
jsonClone(heap, root) ==
    [ heap |-> heap \o StateObjects(ReadState(heap, root), Len(heap)),
      root |-> Len(heap) + 1 ]

\* One iteration of the loop of applyFeedbackEvents: the heap after the writes
\* made through newState (slack is recomputed after the loop).
ApplyEvent(heap, newState, event) ==
    LET units == heap[heap[newState].units]
        global == heap[newState].global
        prefs == heap[newState].prefs
    IN  IF event.type = "QUIZ_RESULT" THEN
            IF event.unit \notin DOMAIN units THEN heap
            ELSE IF QuizFailed(event.score)
            THEN [heap EXCEPT ![heap[units[event.unit]].required].review =
                                  @ + REVIEW_BOOST_MINUTES]
            ELSE heap
        ELSE IF event.type = "BLOCK_COMPLETED" THEN
            LET minutes == Max2(0, event.completedMinutes)
            IN  IF minutes = 0 THEN heap
                ELSE IF event.activity \in TheoryActivities THEN
                    IF event.unit \notin DOMAIN units THEN heap
                    ELSE [heap EXCEPT ![heap[units[event.unit]].done][DoneField(event.activity)] =
                                          @ + minutes]
                ELSE IF event.activity \in CasesActivities
                THEN [heap EXCEPT ![global].casesDone = @ + minutes]
                ELSE IF event.activity = "PROGRAMMING_BLOCK"
                THEN [heap EXCEPT ![global].programmingDone = @ + minutes]
                ELSE heap
        ELSE IF event.type = "SESSION_FEEDBACK" THEN
            LET current == heap[prefs][event.activity]
                bounds == ACTIVITY_BOUNDS[event.activity]
                newTarget == IF event.feel = "too_much" THEN current - SESSION_FEEDBACK_STEP
                             ELSE IF event.feel = "more" THEN current + SESSION_FEEDBACK_STEP
                             ELSE current
            IN  [heap EXCEPT ![prefs][event.activity] = ClampTarget(bounds, newTarget)]
        ELSE heap

\* Variant of FoldEvents: the loop ends at the first event whose unit is not
\* in state.units (break instead of continue).
RECURSIVE FoldEventsUntilUnknown(_, _, _)
FoldEventsUntilUnknown(heap, newState, events) ==
    IF events = <<>> THEN heap
    ELSE IF /\ Head(events).type = "QUIZ_RESULT" \/ Head(events).activity \in TheoryActivities
            /\ Head(events).type # "SESSION_FEEDBACK"
            /\ Head(events).unit \notin DOMAIN heap[heap[newState].units]
         THEN heap
         ELSE FoldEventsUntilUnknown(ApplyEvent(heap, newState, Head(events)), newState,
                                     Tail(events))

\* The loop over the events: the heap after the last iteration
RECURSIVE FoldEvents(_, _, _)
FoldEvents(heap, newState, events) ==
    IF events = <<>> THEN heap
    ELSE FoldEvents(ApplyEvent(heap, newState, Head(events)), newState, Tail(events))

\* applyFeedbackEvents(state, events) for the state object at address `state`:
\* the heap after the call and the address returned.  The new slack object is
\* assigned to newState.slack; effectiveCapacityFuture is read from `state`.
applyFeedbackEventsOnHeap(heap, state, events) ==
    LET clone == jsonClone(heap, state)
        looped == FoldEvents(clone.heap, clone.root, events)
        newState == ReadState(looped, clone.root)
        slack == computeSlack(looped[looped[state].slack].effectiveCapacityFuture,
                              computeTotalRequired(newState.units, newState.global),
                              computeTotalDone(newState.units, newState.global))
    IN  [ heap |-> [Append(looped, slack) EXCEPT ![clone.root].slack = Len(looped) + 1],
          root |-> clone.root ]

\* The value of the state returned for an argument of value st
applyFeedbackEvents(st, events) ==
    LET returned == applyFeedbackEventsOnHeap(StateObjects(st, 0), 1, events)
    IN  ReadState(returned.heap, returned.root)

(***************************************************************************)
(* Pass 1 allocator: budget, context and the selection stages.             *)
(* A selection result is a record [act, ctx]: the returned activity        *)
(* ("NONE" for null) and the context after the mutations of the call.      *)
(* In a context, unit 0 is null / undefined and availableMinutesToday < 0  *)
(* is an absent field.                                                     *)
(***************************************************************************)
createGlobalBudget(cap) ==
    [ theoryPlanned |-> cap.theoryPlanned,
      casesPlanned |-> cap.casesPlanned,
      programmingPlanned |-> cap.programmingPlanned,
      theoryRemaining |-> cap.theoryPlanned,
      casesRemaining |-> cap.casesPlanned,
      programmingRemaining |-> cap.programmingPlanned,
      casePracticeScheduled |-> 0,
      caseMockScheduled |-> 0,
      unitTheoryRemaining |->
        [ i \in 1..cap.unitsCount |->
            [ studyThemeRemaining |-> STUDY_THEME_MINUTES,
              studyThemeDone |-> 0,
              reviewRemaining |-> REVIEW_MINUTES,
              podcastRemaining |-> PODCAST_MINUTES,
              flashcardRemaining |-> FLASHCARD_MINUTES,
              quizRemaining |-> QUIZ_MAX_MINUTES,
              totalRemaining |-> THEORY_ENVELOPE_MINUTES,
              studyThemeComplete |-> FALSE ] ] ]

UnitKeysOf(budget) == DOMAIN budget.unitTheoryRemaining

\* Variant of sortedUnitKeys: the comparator is reversed (b - a).
sortedUnitKeysDescending(budget) ==
    LET n == Cardinality(UnitKeysOf(budget)) IN [i \in 1..n |-> n + 1 - i]

\* Object.keys(budget.unitTheoryRemaining) sorted by the number in the key
sortedUnitKeys(budget) ==
    [i \in 1..Cardinality(UnitKeysOf(budget)) |-> i]

\* Index of the first element of a sequence that satisfies P, 0 when none does
FirstIndex(seq, P(_)) ==
    LET hits == {i \in 1..Len(seq) : P(seq[i])}
    IN  IF hits = {} THEN 0 ELSE CHOOSE i \in hits : \A j \in hits : i <= j

\* First element of a sequence of unit keys that satisfies P, 0 (null) when none does
FirstKey(seq, P(_)) ==
    IF FirstIndex(seq, P) = 0 THEN 0 ELSE seq[FirstIndex(seq, P)]

\* Key of the unit firstUnitWithRemaining returns (0 for null).
firstUnitWithRemaining(budget) ==
    FirstKey(sortedUnitKeys(budget),
             LAMBDA k : budget.unitTheoryRemaining[k].totalRemaining > 0)

\* Body of the loop of firstEligiblePrimaryUnit for keys[i]: TRUE when it returns
IsEligiblePrimary(budget, locked, keys, i) ==
    /\ budget.unitTheoryRemaining[keys[i]].studyThemeRemaining > 0
    /\ ~ ( i > 1
           /\ budget.unitTheoryRemaining[keys[i - 1]].studyThemeDone
                 < START_NEXT_UNIT_THRESHOLD )
    /\ ~ (locked # 0 /\ locked # keys[i])

\* Variant of firstEligiblePrimaryUnit: the last eligible unit is taken.
lastEligiblePrimaryUnit(budget, ctx) ==
    LET keys == sortedUnitKeys(budget)
        hits == {i \in 1..Len(keys) :
                    IsEligiblePrimary(budget, ctx.studyThemeTodayUnit, keys, i)}
    IN  IF hits = {} THEN 0
        ELSE keys[CHOOSE i \in hits : \A j \in hits : i >= j]

firstEligiblePrimaryUnit(budget, ctx) ==
    LET keys == sortedUnitKeys(budget)
        hits == {i \in 1..Len(keys) :
                    IsEligiblePrimary(budget, ctx.studyThemeTodayUnit, keys, i)}
    IN  IF hits = {} THEN 0
        ELSE keys[CHOOSE i \in hits : \A j \in hits : i <= j]

\* Variant of IsActivated: a unit counts as started with 0 minutes.
IsActivatedFromZero(u) == u.studyThemeDone >= 0

\* (u.studyThemeDone ?? 0) > 0
IsActivated(u) == u.studyThemeDone > 0

\* Variant of CanReviewAt: REVIEW opens at the start-next-unit threshold.
CanReviewAtStartThreshold(u) ==
    u.studyThemeDone >= START_NEXT_UNIT_THRESHOLD /\ u.reviewRemaining > 0

CanReviewAt(u) ==
    u.studyThemeDone >= STUDY_THEME_COMPLETE_THRESHOLD /\ u.reviewRemaining > 0

selectSecondaryForUnit(budget, unitKey, todayUnit) ==
    IF unitKey \notin UnitKeysOf(budget) THEN "NONE"
    ELSE LET u == budget.unitTheoryRemaining[unitKey]
             isTodayUnit == todayUnit # 0 /\ todayUnit = unitKey
         IN  IF u.totalRemaining <= 0 THEN "NONE"
             ELSE IF ~IsActivated(u) /\ ~isTodayUnit THEN "NONE"
             ELSE IF CanReviewAt(u) THEN "REVIEW"
             ELSE IF u.podcastRemaining > 0 THEN "PODCAST"
             ELSE IF u.flashcardRemaining > 0 THEN "FLASHCARD"
             ELSE IF u.quizRemaining > 0 THEN "QUIZ"
             ELSE "NONE"

activeUnitKeys(budget) ==
    SelectSeq(sortedUnitKeys(budget),
              LAMBDA k : IsActivated(budget.unitTheoryRemaining[k]))

SeqContains(seq, k) == \E i \in 1..Len(seq) : seq[i] = k

\* todayUnit is a unit key here (both call sites pass a non-null unit).
selectSecondaryWithInterleaving(budget, todayUnit, ctx) ==
    LET active == activeUnitKeys(budget)
        preferOther == Len(active) >= 2 /\ todayUnit # 0
        keys == SelectSeq(sortedUnitKeys(budget),
                          LAMBDA k : SeqContains(active, k)
                                        \/ (todayUnit # 0 /\ k = todayUnit))
        order == IF preferOther
                 THEN SelectSeq(keys, LAMBDA k : k # todayUnit)
                        \o SelectSeq(keys, LAMBDA k : k = todayUnit)
                 ELSE keys
        k == FirstKey(order,
                      LAMBDA j : selectSecondaryForUnit(budget, j, todayUnit) # "NONE")
    IN  IF k = 0 THEN [act |-> "NONE", ctx |-> ctx]
        ELSE IF preferOther /\ k # todayUnit
        THEN [ act |-> selectSecondaryForUnit(budget, k, todayUnit),
               ctx |-> [ctx EXCEPT !.theoryUnitOverride = k] ]
        ELSE [ act |-> selectSecondaryForUnit(budget, k, todayUnit),
               ctx |-> [ctx EXCEPT !.theoryUnitOverride = 0] ]

\* Variant of theoryCap: a quarter of a long day instead of half of it.
theoryCapQuarter(ctx) ==
    LET avail == IF ctx.availableMinutesToday < 0 THEN 0 ELSE ctx.availableMinutesToday
    IN  IF avail >= 240 THEN avail \div 4 ELSE Min2(avail, 120)

theoryCap(ctx) ==
    LET avail == IF ctx.availableMinutesToday < 0 THEN 0 ELSE ctx.availableMinutesToday
    IN  IF avail >= 240 THEN avail \div 2 ELSE Min2(avail, 120)

\* The for-loop that ends selectTheoryActivity: active units in key order,
\* then today's unit when it is not active yet.
LastResortSecondary(budget, todayUnit, ctx) ==
    LET active == activeUnitKeys(budget)
        activatedUnits == IF todayUnit # 0 /\ ~SeqContains(active, todayUnit)
                          THEN Append(active, todayUnit) ELSE active
        k == FirstKey(activatedUnits,
                      LAMBDA j : selectSecondaryForUnit(budget, j, todayUnit) # "NONE")
    IN  IF k # 0
        THEN [ act |-> selectSecondaryForUnit(budget, k, todayUnit),
               ctx |-> [ctx EXCEPT !.theoryUnitOverride = 0] ]
        ELSE [act |-> "NONE", ctx |-> ctx]

selectTheoryActivity(budget, ctx) ==
    IF ctx.availableMinutesToday < 0 THEN
        LET k == firstUnitWithRemaining(budget)
        IN  IF k = 0 THEN [act |-> "NONE", ctx |-> ctx]
            ELSE IF budget.unitTheoryRemaining[k].studyThemeRemaining > 0
            THEN [act |-> "STUDY_THEME", ctx |-> ctx]
            ELSE [act |-> selectSecondaryForUnit(budget, k, 0), ctx |-> ctx]
    ELSE
        LET todayUnit == ctx.studyThemeTodayUnit
            todayMins == ctx.studyThemeTodayMinutes
            cap == theoryCap(ctx)
            primary == firstEligiblePrimaryUnit(budget, ctx)
        IN  IF todayMins >= cap THEN
                IF todayUnit = 0 THEN [act |-> "NONE", ctx |-> ctx]
                ELSE LET r == selectSecondaryWithInterleaving(budget, todayUnit, ctx)
                     IN  IF r.act # "NONE" THEN r
                         ELSE [ act |-> selectSecondaryForUnit(budget, todayUnit, todayUnit),
                                ctx |-> [ctx EXCEPT !.theoryUnitOverride = 0] ]
            ELSE IF primary # 0
                    /\ budget.unitTheoryRemaining[primary].studyThemeRemaining > 0
            THEN [ act |-> "STUDY_THEME",
                   ctx |-> [ctx EXCEPT
                              !.studyThemeTodayUnit = IF todayUnit = 0 THEN primary ELSE @,
                              !.theoryUnitOverride = 0] ]
            ELSE LET r == IF todayUnit # 0
                          THEN selectSecondaryWithInterleaving(budget, todayUnit, ctx)
                          ELSE [act |-> "NONE", ctx |-> ctx]
                 IN  IF r.act # "NONE" THEN r
                     ELSE LastResortSecondary(budget, todayUnit, ctx)

\* Variant of currentUnitKey: today's locked unit is not consulted.
currentUnitKeyWithoutLock(budget, ctx) ==
    IF ctx.theoryUnitOverride # 0 THEN ctx.theoryUnitOverride
    ELSE firstUnitWithRemaining(budget)

currentUnitKey(budget, ctx) ==
    IF ctx.theoryUnitOverride # 0 THEN ctx.theoryUnitOverride
    ELSE IF ctx.studyThemeTodayUnit # 0 THEN ctx.studyThemeTodayUnit
    ELSE firstUnitWithRemaining(budget)

getCurrentUnitKey(budget, ctx) == currentUnitKey(budget, ctx)

\* Variant of selectCasesActivity: the practice target is half of the plan.
selectCasesActivityHalf(budget) ==
    IF 2 * budget.casePracticeScheduled < budget.casesPlanned
    THEN "CASE_PRACTICE" ELSE "CASE_MOCK"

\* casePracticeScheduled < 0.7 * casesPlanned
selectCasesActivity(budget) ==
    IF 10 * budget.casePracticeScheduled < 7 * budget.casesPlanned
    THEN "CASE_PRACTICE" ELSE "CASE_MOCK"

\* Ratios remaining / planned are pairs <<numerator, denominator>> with a
\* positive denominator (0 when planned is 0), compared by cross-multiplication.
RatioOf(remaining, planned) == IF planned > 0 THEN <<remaining, planned>> ELSE <<0, 1>>
RatioGeq(a, b) == a[1] * b[2] >= b[1] * a[2]
RatioEq(a, b) == a[1] * b[2] = b[1] * a[2]
\* Variant of RatioMax: the smaller of the two ratios.
RatioMin(a, b) == IF RatioGeq(a, b) THEN b ELSE a

RatioMax(a, b) == IF RatioGeq(a, b) THEN a ELSE b

\* Variant of StreamResult: the programming stream hands out case blocks.
StreamResultWithoutProgramming(budget, ctx, stream) ==
    IF stream = "theory" THEN selectTheoryActivity(budget, ctx)
    ELSE IF stream \in {"cases", "programming"}
    THEN [act |-> selectCasesActivity(budget), ctx |-> ctx]
    ELSE [act |-> "NONE", ctx |-> ctx]

StreamResult(budget, ctx, stream) ==
    IF stream = "theory" THEN selectTheoryActivity(budget, ctx)
    ELSE IF stream = "cases" THEN [act |-> selectCasesActivity(budget), ctx |-> ctx]
    ELSE IF stream = "programming" THEN [act |-> "PROGRAMMING_BLOCK", ctx |-> ctx]
    ELSE [act |-> "NONE", ctx |-> ctx]

\* Variant of TheoryOnlyWeek: only the first week is theory only.
TheoryOnlyFirstWeek(weekIndex) == weekIndex <= 1

TheoryOnlyWeek(weekIndex) == weekIndex <= 2

selectActivity(budget, weekIndex, ctx) ==
    IF TheoryOnlyWeek(weekIndex) THEN selectTheoryActivity(budget, ctx)
    ELSE
        LET tr == RatioOf(budget.theoryRemaining, budget.theoryPlanned)
            cr == RatioOf(budget.casesRemaining, budget.casesPlanned)
            pr == RatioOf(budget.programmingRemaining, budget.programmingPlanned)
            preferCases == ctx.lastWeekCasesMinutes = 0 /\ budget.casesRemaining > 0
            preferProg == ctx.lastWeekProgrammingMinutes = 0
                            /\ budget.programmingRemaining > 0
            best == RatioMax(RatioMax(tr, cr), pr)
            stream ==
                IF preferCases /\ cr[1] > 0 THEN "cases"
                ELSE IF preferProg /\ pr[1] > 0 THEN "programming"
                ELSE IF best[1] <= 0 THEN "none"
                ELSE IF RatioEq(tr, best) /\ budget.theoryRemaining > 0 THEN "theory"
                ELSE IF RatioEq(cr, best) /\ budget.casesRemaining > 0 THEN "cases"
                ELSE IF RatioEq(pr, best) /\ budget.programmingRemaining > 0
                THEN "programming"
                ELSE "none"
        IN  StreamResult(budget, ctx, stream)

\* Variant of EndOfWeek: fewer than 120 minutes are left in the week.
EndOfWeekBelow(wr) == wr < 120

\* part_002:337: the week has at most 120 minutes left
EndOfWeek(wr) == wr <= 120

\* Variant of selectActivityWithSmoothing: Stage A alone.
selectActivityWithoutSmoothing(budget, ctx) == selectActivity(budget, ctx.weekIndex, ctx)

selectActivityWithSmoothing(budget, ctx) ==
    LET wi == ctx.weekIndex
        tw == ctx.thisWeekTheory
        cw == ctx.thisWeekCases
        pw == ctx.thisWeekProg
        wr == ctx.weekRemainingMinutes
        missingTheory == tw < WEEKLY_MINIMUM_MINUTES /\ budget.theoryRemaining > 0
        missingCases == cw < WEEKLY_MINIMUM_MINUTES /\ budget.casesRemaining > 0
        missingProg == pw < WEEKLY_MINIMUM_MINUTES /\ budget.programmingRemaining > 0
    IN  IF TheoryOnlyWeek(wi) THEN selectTheoryActivity(budget, ctx)
        ELSE IF EndOfWeek(wr) /\ missingCases THEN StreamResult(budget, ctx, "cases")
        ELSE IF EndOfWeek(wr) /\ missingProg THEN StreamResult(budget, ctx, "programming")
        ELSE IF EndOfWeek(wr) /\ missingTheory THEN StreamResult(budget, ctx, "theory")
        ELSE IF missingCases /\ cw <= tw /\ cw <= pw THEN StreamResult(budget, ctx, "cases")
        ELSE IF missingProg /\ pw <= tw /\ pw <= cw
        THEN StreamResult(budget, ctx, "programming")
        ELSE IF missingTheory /\ tw <= cw /\ tw <= pw
        THEN StreamResult(budget, ctx, "theory")
        ELSE selectActivity(budget, wi, ctx)

RemainingField(activity) ==
    CASE activity = "STUDY_THEME" -> "studyThemeRemaining"
      [] activity = "REVIEW" -> "reviewRemaining"
      [] activity = "PODCAST" -> "podcastRemaining"
      [] activity = "FLASHCARD" -> "flashcardRemaining"
      [] activity = "QUIZ" -> "quizRemaining"

\* updateGlobalBudget(budget, activity, minutes, unitOverride, ctx); unitOverride 0
\* is null / undefined.
updateGlobalBudget(budget, activity, minutes, unitOverride, ctx) ==
    LET k == IF unitOverride # 0 THEN unitOverride ELSE currentUnitKey(budget, ctx)
    IN  IF activity \in TheoryActivities THEN
            LET b1 == [budget EXCEPT !.theoryRemaining = @ - minutes]
            IN  IF k = 0 THEN b1
                ELSE [b1 EXCEPT
                        !.unitTheoryRemaining[k] =
                            LET u == [@ EXCEPT ![RemainingField(activity)] =
                                                    Max2(0, @ - minutes),
                                               !.totalRemaining = Max2(0, @ - minutes)]
                            IN  IF activity = "STUDY_THEME"
                                THEN [u EXCEPT
                                        !.studyThemeDone = @ + minutes,
                                        !.studyThemeComplete =
                                            IF u.studyThemeRemaining <= 0 THEN TRUE ELSE @]
                                ELSE u]
        ELSE IF activity = "CASE_PRACTICE"
        THEN [budget EXCEPT !.casesRemaining = @ - minutes,
                            !.casePracticeScheduled = @ + minutes]
        ELSE IF activity = "CASE_MOCK"
        THEN [budget EXCEPT !.casesRemaining = @ - minutes,
                            !.caseMockScheduled = @ + minutes]
        ELSE IF activity = "PROGRAMMING_BLOCK"
        THEN [budget EXCEPT !.programmingRemaining = @ - minutes]
        ELSE budget

(***************************************************************************)
(* generator: createBudgetFromState and the Pass 1 day builder             *)
(***************************************************************************)
\* Variant of RemainingOf: the minutes already done are not subtracted.
RemainingIgnoringDone(required, done) == Max2(0, required)

RemainingOf(required, done) == Max2(0, required - done)

UnitBudgetOf(unit) ==
    LET st == RemainingOf(unit.required.studyTheme, unit.done.studyTheme)
        rv == RemainingOf(unit.required.review, unit.done.review)
        pd == RemainingOf(unit.required.podcast, unit.done.podcast)
        fc == RemainingOf(unit.required.flashcard, unit.done.flashcard)
        qz == RemainingOf(unit.required.quiz, unit.done.quiz)
    IN  [ studyThemeRemaining |-> st,
          studyThemeDone |-> unit.done.studyTheme,
          reviewRemaining |-> rv,
          podcastRemaining |-> pd,
          flashcardRemaining |-> fc,
          quizRemaining |-> qz,
          totalRemaining |-> st + rv + pd + fc + qz,
          studyThemeComplete |-> st <= 0 ]

RECURSIVE SumTotalRemaining(_, _)
SumTotalRemaining(unitBudgets, n) ==
    IF n <= 0 THEN 0
    ELSE SumTotalRemaining(unitBudgets, n - 1) + unitBudgets[n].totalRemaining

createBudgetFromState(st) ==
    LET unitBudgets == [k \in DOMAIN st.units |-> UnitBudgetOf(st.units[k])]
    IN  [ theoryPlanned |-> SumUnits(st.units, "required", NumUnitsOf(st.units)),
          casesPlanned |-> st.global.casesRequired,
          programmingPlanned |-> st.global.programmingRequired,
          theoryRemaining |-> SumTotalRemaining(unitBudgets, NumUnitsOf(st.units)),
          casesRemaining |-> RemainingOf(st.global.casesRequired, st.global.casesDone),
          programmingRemaining |->
              RemainingOf(st.global.programmingRequired, st.global.programmingDone),
          casePracticeScheduled |-> 0,
          caseMockScheduled |-> 0,
          unitTheoryRemaining |-> unitBudgets ]

\* 1-based week of the day at offset d
WeekIndexOf(d) == (d \div 7) + 1

\* Availability of the days of d's week that come after d
RECURSIVE RestOfWeekMinutes(_, _, _)
RestOfWeekMinutes(avail, today, d) ==
    IF (d + 1) % 7 = 0 THEN 0
    ELSE MinutesOfDay(avail, today, d + 1) + RestOfWeekMinutes(avail, today, d + 1)

\* Target block duration of an activity: the preference clamped to the block bounds
TargetDuration(prefs, activity) ==
    Max2(MIN_BLOCK_DURATION, Min2(MAX_BLOCK_DURATION, prefs[activity]))

\* The unit a block is attributed to: theory blocks use getCurrentUnitKey, a
\* programming block carries the unit "Programacion" (-1), case blocks none (0).
BlockUnit(budget, ctx, activity) ==
    IF activity \in TheoryActivities THEN getCurrentUnitKey(budget, ctx)
    ELSE IF activity = "PROGRAMMING_BLOCK" THEN -1
    ELSE 0

\* Context after a block of `minutes` of `activity` is committed
ContextAfterBlock(ctx, activity, minutes) ==
    [ctx EXCEPT
        !.thisWeekTheory = IF activity \in TheoryActivities THEN @ + minutes ELSE @,
        !.thisWeekCases = IF activity \in CasesActivities THEN @ + minutes ELSE @,
        !.thisWeekProg = IF activity = "PROGRAMMING_BLOCK" THEN @ + minutes ELSE @,
        !.weekRemainingMinutes = @ - minutes,
        !.studyThemeTodayMinutes = IF activity = "STUDY_THEME" THEN @ + minutes ELSE @]

\* Context at the start of the day at offset d: weekly trackers roll over on
\* the first day of a week, the per-day fields are reset.
ContextAtDayStart(ctx, avail, today, d, minutes) ==
    LET newWeek == d > 0 /\ d % 7 = 0
    IN  [ctx EXCEPT
            !.lastWeekCasesMinutes = IF newWeek THEN ctx.thisWeekCases ELSE @,
            !.lastWeekProgrammingMinutes = IF newWeek THEN ctx.thisWeekProg ELSE @,
            !.thisWeekTheory = IF newWeek THEN 0 ELSE @,
            !.thisWeekCases = IF newWeek THEN 0 ELSE @,
            !.thisWeekProg = IF newWeek THEN 0 ELSE @,
            !.weekIndex = WeekIndexOf(d),
            !.weekRemainingMinutes = minutes + RestOfWeekMinutes(avail, today, d),
            !.studyThemeTodayUnit = 0,
            !.studyThemeTodayMinutes = 0,
            !.availableMinutesToday = minutes,
            !.theoryUnitOverride = 0]

InitialContext ==
    [ lastWeekCasesMinutes |-> 0,
      lastWeekProgrammingMinutes |-> 0,
      thisWeekTheory |-> 0,
      thisWeekCases |-> 0,
      thisWeekProg |-> 0,
      weekRemainingMinutes |-> 0,
      weekIndex |-> 1,
      studyThemeTodayUnit |-> 0,
      studyThemeTodayMinutes |-> 0,
      availableMinutesToday |-> 0,
      theoryUnitOverride |-> 0 ]

(***************************************************************************)
(* Inputs explored                                                         *)
(***************************************************************************)
\* availabilityHoursByWeekday, Monday .. Sunday: weeks of whole minutes, and
\* two weeks of fractional hours: 4.1 h, 14.5, 14.75 and 14.5 minutes, 8.2 h,
\* nothing and 14.25 minutes; 8.2 h on Tuesday and 14.75 minutes on Friday.
Availabilities ==
    { WeekOfMinutes(w) : w \in { <<240, 240, 240, 240, 240, 0, 0>>,
                                 <<240, 240, 180, 240, 240, 0, 0>>,
                                 <<270, 270, 270, 270, 270, 0, 0>>,
                                 <<90, 45, 10, 251, 60, 0, 480>>,
                                 <<45, 0, 45, 0, 0, 0, 0>>,
                                 <<45, 0, 120, 0, 0, 0, 0>>,
                                 <<0, 0, 0, 0, 0, 0, 0>> } }
        \cup { <<984, 58, 59, 58, 1968, 0, 57>>, <<0, 1968, 0, 0, 59, 0, 0>> }

Todays == { <<2026, 1, 1>>, <<2026, 1, 6>> }

\* Exam dates: five and six weeks ahead, within the two reserved weeks, on the
\* day itself and in the past.
ExamDates ==
    { <<2026, 2, 5>>, <<2026, 2, 12>>, <<2026, 1, 13>>, <<2026, 1, 6>>, <<2025, 12, 20>> }

UnitCounts == { MaxUnits - 1, MaxUnits }

FormInputs ==
    { [today |-> t, examDate |-> e, avail |-> a, unitsCount |-> n] :
        t \in Todays, e \in ExamDates, a \in Availabilities, n \in UnitCounts }

QuizResult(unit, score) ==
    [ type |-> "QUIZ_RESULT", unit |-> unit, score |-> score,
      activity |-> "QUIZ", completedMinutes |-> 0, feel |-> "ok" ]

BlockCompleted(activity, unit, completedMinutes) ==
    [ type |-> "BLOCK_COMPLETED", unit |-> unit, score |-> 0,
      activity |-> activity, completedMinutes |-> completedMinutes, feel |-> "ok" ]

SessionFeedback(activity, feel) ==
    [ type |-> "SESSION_FEEDBACK", unit |-> 0, score |-> 0,
      activity |-> activity, completedMinutes |-> 0, feel |-> feel ]

\* Feedback histories a plan is regenerated from
EventLists ==
    { << QuizResult(1, 45) >>,
      << BlockCompleted("STUDY_THEME", 1, 120) >>,
      << BlockCompleted("STUDY_THEME", 1, 240), BlockCompleted("PODCAST", 1, 60) >>,
      << BlockCompleted("STUDY_THEME", 2, 240) >>,
      << SessionFeedback("STUDY_THEME", "too_much") >>,
      << BlockCompleted("CASE_PRACTICE", 0, 90), QuizResult(9, 10) >> }

\* rules.ts: number of units of the unlock-based generator
UNIT_COUNT == 20

\* generator.ts 174-185: trackers of generatePlan before its day loop.  A date
\* not yet recorded is <<>>; programming hours are counted in half hours and
\* accumulatedHours is a double of hours.
\* i, blocksToAdd and needsFeedback are the locals of the day's selection loop
\* (needsFeedback "" for null).
InitialTracking ==
    [ lastStudiedAt |-> [u \in 1..UNIT_COUNT |-> <<>>],
      firstStudiedAt |-> [u \in 1..UNIT_COUNT |-> <<>>],
      nextUnitIndex |-> 0,
      accumulatedHours |-> DoubleOfHours(0),
      casesCompleted |-> 0,
      programmingHalfHours |-> 0,
      repasosCompleted |-> 0,
      simTheoryCompleted |-> 0,
      simCasesCompleted |-> 0,
      i |-> 0,
      blocksToAdd |-> 0,
      needsFeedback |-> "" ]

\* No applyFeedbackEvents call has been made yet
NoCall ==
    [ count |-> 0, events |-> <<>>, input |-> <<>>, inputAfter |-> <<>>,
      result |-> <<>>, resultIsNew |-> FALSE ]

\* No plan has been kept for comparison yet
NoBaseline == [ kept |-> FALSE, blocks |-> <<>> ]

(***************************************************************************)
(* State of one run: derive the state, optionally fold a feedback history  *)
(* into it, generate the plan from it day by day.                          *)
(***************************************************************************)
VARIABLES
    pc,          \* "derived", "fed", "day", "fill", "done"; generator.ts: "uday",
                 \* "ureview14", "ureview48", "uloop"
    inputs,      \* FormInputs with options.todayISO
    capacity,    \* PlanCapacity
    state,       \* StudentState
    budget,      \* GlobalBudget of the generation call
    ctx,         \* AllocatorContext
    dayOffset,   \* d, offset of the day being built
    remaining,   \* minutes of the day not yet filled
    days,        \* plan.days: sequence of [date, weekday, available]
    blocks,      \* blocks of the plan in order: [day, index, activity, unit, durationMinutes]
    tracking,    \* trackers of the unlock-based generatePlan (generator.ts)
    call,        \* the last applyFeedbackEvents call: its arguments and outcome
    baseline     \* the plan generated before the feedback was applied, kept for comparison

vars == <<pc, inputs, capacity, state, budget, ctx, dayOffset, remaining, days, blocks,
          tracking, call, baseline>>

Init ==
    /\ inputs \in FormInputs
    /\ capacity = calculateCapacity(inputs)
    /\ state = deriveInitialState(inputs, capacity)
    /\ pc = "derived"
    /\ budget = createGlobalBudget(capacity)
    /\ ctx = InitialContext
    /\ dayOffset = 0
    /\ remaining = 0
    /\ days = <<>>
    /\ blocks = <<>>
    /\ tracking = InitialTracking
    /\ call = NoCall
    /\ baseline = NoBaseline

\* applyFeedbackEvents(state, events)
ApplyFeedback ==
    /\ pc = "derived"
    /\ \E events \in EventLists : state' = applyFeedbackEvents(state, events)
    /\ pc' = "fed"
    /\ UNCHANGED <<inputs, capacity, budget, ctx, dayOffset, remaining, days, blocks, tracking, call, baseline>>

\* generatePlanFromState(inputs, state, options): budget from the state
StartGeneration ==
    /\ pc \in {"derived", "fed"}
    /\ budget' = createBudgetFromState(state)
    /\ ctx' = InitialContext
    /\ dayOffset' = 0
    /\ pc' = "day"
    /\ UNCHANGED <<inputs, capacity, state, remaining, days, blocks, tracking, call, baseline>>

TotalDays == diffDays(inputs.today, inputs.examDate)

DayRecord(d, minutes) ==
    [ date |-> addDays(inputs.today, d),
      weekday |-> getWeekday(addDays(inputs.today, d)),
      available |-> minutes ]

\* Steps 1-4 of the day loop: the day is emitted, empty when it lies in the
\* reserved tail or has less than MIN_BLOCK_DURATION minutes.
StartDay ==
    /\ pc = "day"
    /\ dayOffset < TotalDays
    /\ LET minutes == MinutesOfDay(inputs.avail, inputs.today, dayOffset)
           empty == \/ WeekIndexOf(dayOffset) > capacity.effectivePlanningWeeks
                    \/ minutes < MIN_BLOCK_DURATION
       IN  /\ days' = Append(days, DayRecord(dayOffset, minutes))
           /\ ctx' = ContextAtDayStart(ctx, inputs.avail, inputs.today, dayOffset, minutes)
           /\ IF empty
              THEN /\ dayOffset' = dayOffset + 1
                   /\ pc' = "day"
                   /\ remaining' = 0
              ELSE /\ dayOffset' = dayOffset
                   /\ pc' = "fill"
                   /\ remaining' = minutes
    /\ UNCHANGED <<inputs, capacity, state, budget, blocks, tracking, call, baseline>>

BlocksOfDay(d) == SelectSeq(blocks, LAMBDA b : b.day = d)

\* Emit a block of `minutes` for the selection `sel` and update budget and context
EmitBlock(sel, minutes) ==
    LET unit == BlockUnit(budget, sel.ctx, sel.act)
    IN  /\ blocks' = Append(blocks,
                        [ day |-> dayOffset,
                          index |-> Len(BlocksOfDay(dayOffset)),
                          activity |-> sel.act,
                          unit |-> unit,
                          durationMinutes |-> minutes ])
        /\ budget' = updateGlobalBudget(budget, sel.act, minutes,
                                        IF unit > 0 THEN unit ELSE 0, sel.ctx)
        /\ ctx' = ContextAfterBlock(sel.ctx, sel.act, minutes)
        /\ remaining' = remaining - minutes

\* Main drain: one iteration of the loop `while remaining >= 60`
DrainBlock ==
    /\ pc = "fill"
    /\ remaining >= MAX_BLOCK_DURATION
    /\ LET sel == selectActivityWithSmoothing(budget, ctx)
       IN  /\ sel.act # "NONE"
           /\ EmitBlock(sel, Min2(TargetDuration(state.prefs, sel.act), remaining))
    /\ UNCHANGED <<pc, inputs, capacity, state, dayOffset, days, tracking, call, baseline>>

\* Tail and short-day fallback: one more call, the block takes what is left
TailBlock ==
    /\ pc = "fill"
    /\ remaining >= MIN_BLOCK_DURATION
    /\ remaining < MAX_BLOCK_DURATION
    /\ LET sel == selectActivityWithSmoothing(budget, ctx)
       IN  /\ sel.act # "NONE"
           /\ EmitBlock(sel, remaining)
    /\ pc' = "day"
    /\ dayOffset' = dayOffset + 1
    /\ UNCHANGED <<inputs, capacity, state, days, tracking, call, baseline>>

\* The day ends: nothing left to fill, or the allocator returned null
EndDay ==
    /\ pc = "fill"
    /\ \/ remaining < MIN_BLOCK_DURATION
       \/ selectActivityWithSmoothing(budget, ctx).act = "NONE"
    /\ pc' = "day"
    /\ dayOffset' = dayOffset + 1
    /\ UNCHANGED <<inputs, capacity, state, budget, ctx, remaining, days, blocks, tracking, call, baseline>>

\* The plan is returned
Finish ==
    /\ pc = "day"
    /\ dayOffset >= TotalDays
    /\ pc' = "done"
    /\ UNCHANGED <<inputs, capacity, state, budget, ctx, dayOffset, remaining, days, blocks, tracking, call, baseline>>

Next ==
    \/ ApplyFeedback
    \/ StartGeneration
    \/ StartDay
    \/ DrainBlock
    \/ TailBlock
    \/ EndDay
    \/ Finish

Spec == Init /\ [][Next]_vars

TypeOK == pc \in {"derived", "fed", "day", "fill", "done"}

(***************************************************************************)
(* Measures of the plan built so far                                       *)
(***************************************************************************)
RECURSIVE StudyThemeMinutes(_, _, _)
\* STUDY_THEME minutes attributed to `unit` in the first n blocks that fall on
\* a day at offset <= lastDay
StudyThemeMinutes(unit, lastDay, n) ==
    IF n <= 0 THEN 0
    ELSE StudyThemeMinutes(unit, lastDay, n - 1)
            + ( IF /\ blocks[n].activity = "STUDY_THEME"
                   /\ blocks[n].unit = unit
                   /\ blocks[n].day <= lastDay
                THEN blocks[n].durationMinutes ELSE 0 )

\* STUDY_THEME minutes on `unit` in plan blocks dated up to and including day d
StudyThemeUpTo(unit, d) == StudyThemeMinutes(unit, d, Len(blocks))

\* STUDY_THEME minutes done on `unit` in the state the plan is generated from
HistoricalStudyTheme(unit) ==
    IF unit \in DOMAIN state.units THEN state.units[unit].done.studyTheme ELSE 0

BlockIndices == 1..Len(blocks)

(***************************************************************************)
(* C1: review gating                                                       *)
(***************************************************************************)
\* C1 as stated: for every REVIEW block attributed to unit U on date D, the
\* STUDY_THEME minutes attributed to U in plan blocks up to and including D sum
\* to at least 240.
C1_ReviewAfter240InPlan ==
    \A i \in BlockIndices :
        blocks[i].activity = "REVIEW" =>
            StudyThemeUpTo(blocks[i].unit, blocks[i].day)
                >= STUDY_THEME_COMPLETE_THRESHOLD

\* C1 amended: for every REVIEW block attributed to unit U on date D, the
\* STUDY_THEME minutes already done on U in the state the plan is generated
\* from, plus the STUDY_THEME minutes attributed to U in plan blocks up to and
\* including D, sum to at least 240.
C1_ReviewAfter240 ==
    \A i \in BlockIndices :
        blocks[i].activity = "REVIEW" =>
            HistoricalStudyTheme(blocks[i].unit)
                + StudyThemeUpTo(blocks[i].unit, blocks[i].day)
                >= STUDY_THEME_COMPLETE_THRESHOLD

\* A finished plan with a REVIEW block on a unit whose 240 minutes come partly
\* from the state (120 done) and partly from the plan.
C1_Witness ==
    /\ pc = "done"
    /\ \E i \in BlockIndices :
        /\ blocks[i].activity = "REVIEW"
        /\ HistoricalStudyTheme(blocks[i].unit) = 120
        /\ StudyThemeUpTo(blocks[i].unit, blocks[i].day) = 120

(***************************************************************************)
(* C2: one STUDY_THEME unit per day                                        *)
(***************************************************************************)
\* Indices of the STUDY_THEME blocks of the day at offset d that name a unit
StudyThemeBlocksOn(d) ==
    { i \in BlockIndices :
        blocks[i].day = d /\ blocks[i].activity = "STUDY_THEME" /\ blocks[i].unit # 0 }

FirstIndexIn(S) == CHOOSE i \in S : \A j \in S : i <= j

\* C2: on every day all STUDY_THEME blocks are attributed to one unit, the unit
\* locked by the day's first STUDY_THEME block; while a day is being filled the
\* lock is that unit, and it is empty until the day's first STUDY_THEME block
\* (the lock of the day before is released).
C2_OneStudyThemeUnitPerDay ==
    /\ \A i, j \in BlockIndices :
          ( /\ blocks[i].day = blocks[j].day
            /\ blocks[i].activity = "STUDY_THEME"
            /\ blocks[j].activity = "STUDY_THEME" )
          => blocks[i].unit = blocks[j].unit
    /\ pc = "fill" =>
          IF StudyThemeBlocksOn(dayOffset) = {}
          THEN ctx.studyThemeTodayUnit = 0
          ELSE ctx.studyThemeTodayUnit
                 = blocks[FirstIndexIn(StudyThemeBlocksOn(dayOffset))].unit

\* A day on which the locked unit ran out of STUDY_THEME minutes below the
\* daily cap while the next unit was already eligible, so only the lock keeps
\* the next unit out; the plan also holds a later day locked on another unit.
C2_Witness ==
    /\ pc = "fill"
    /\ ctx.studyThemeTodayUnit = 1
    /\ budget.unitTheoryRemaining[1].studyThemeRemaining = 0
    /\ budget.unitTheoryRemaining[2].studyThemeRemaining > 0
    /\ ctx.studyThemeTodayMinutes < theoryCap(ctx)
    /\ StudyThemeBlocksOn(dayOffset) # {}
    /\ \E i \in BlockIndices :
          blocks[i].activity = "STUDY_THEME" /\ blocks[i].day < dayOffset

(***************************************************************************)
(* C3: daily STUDY_THEME cap                                               *)
(***************************************************************************)
RECURSIVE StudyThemeOnDay(_, _)
\* STUDY_THEME minutes in the first n blocks that fall on day d
StudyThemeOnDay(d, n) ==
    IF n <= 0 THEN 0
    ELSE StudyThemeOnDay(d, n - 1)
            + ( IF blocks[n].activity = "STUDY_THEME" /\ blocks[n].day = d
                THEN blocks[n].durationMinutes ELSE 0 )

\* C3: for every day, if its available minutes are at least 240 the sum of its
\* STUDY_THEME minutes is at most floor(available * 0.5); if they are at least
\* 15 and below 240 the sum is at most 120.
C3_DailyStudyThemeCap ==
    \A j \in 1..Len(days) :
        LET available == days[j].available
            total == StudyThemeOnDay(j - 1, Len(blocks))
        IN  /\ available >= 240 => total <= available \div 2
            /\ (available >= 15 /\ available < 240) => total <= 120

(***************************************************************************)
(* C4: secondary activities only on activated units                        *)
(***************************************************************************)
\* C4 as stated: every PODCAST, FLASHCARD or QUIZ block on unit U at date D has
\* at least 1 STUDY_THEME minute on U in plan blocks up to D, and in a
\* finished plan no secondary block is attributed to a unit without any
\* STUDY_THEME block in the plan.
C4_SecondaryAfterStudyThemeInPlan ==
    /\ \A i \in BlockIndices :
          blocks[i].activity \in {"PODCAST", "FLASHCARD", "QUIZ"}
            => StudyThemeUpTo(blocks[i].unit, blocks[i].day) >= 1
    /\ pc = "done" =>
          \A i \in BlockIndices :
              blocks[i].activity \in SecondaryActivities
                => StudyThemeUpTo(blocks[i].unit, TotalDays) >= 1

\* C4 amended: the STUDY_THEME minutes done on U in the state the plan is
\* generated from count as well: every PODCAST, FLASHCARD or QUIZ block on U at
\* D has done + plan STUDY_THEME minutes up to D of at least 1, and in a
\* finished plan no secondary block is attributed to a unit that has neither
\* STUDY_THEME minutes done in the state nor a STUDY_THEME block in the plan.
C4_SecondaryAfterStudyTheme ==
    /\ \A i \in BlockIndices :
          blocks[i].activity \in {"PODCAST", "FLASHCARD", "QUIZ"}
            => HistoricalStudyTheme(blocks[i].unit)
                 + StudyThemeUpTo(blocks[i].unit, blocks[i].day) >= 1
    /\ pc = "done" =>
          \A i \in BlockIndices :
              blocks[i].activity \in SecondaryActivities
                => HistoricalStudyTheme(blocks[i].unit)
                     + StudyThemeUpTo(blocks[i].unit, TotalDays) >= 1

\* A finished plan with secondary blocks on a unit without history, activated
\* by the plan's own STUDY_THEME blocks, while a later unit is still untouched.
C4_Witness ==
    /\ pc = "done"
    /\ \E i \in BlockIndices :
          /\ blocks[i].activity \in {"PODCAST", "FLASHCARD", "QUIZ"}
          /\ HistoricalStudyTheme(blocks[i].unit) = 0
          /\ StudyThemeUpTo(blocks[i].unit, blocks[i].day) >= 1
          /\ StudyThemeUpTo(blocks[i].unit + 1, blocks[i].day) = 0
          /\ HistoricalStudyTheme(blocks[i].unit + 1) = 0
          /\ blocks[i].unit + 1 \in DOMAIN state.units

(***************************************************************************)
(* C5: start-next-unit threshold                                           *)
(***************************************************************************)
\* C5 as stated: unit k+1 receives no STUDY_THEME block on a date before the
\* date on which the plan's cumulative STUDY_THEME minutes on unit k reach 120.
C5_NextUnitAfter120InPlan ==
    \A i \in BlockIndices :
        (blocks[i].activity = "STUDY_THEME" /\ blocks[i].unit > 1)
          => StudyThemeUpTo(blocks[i].unit - 1, blocks[i].day)
               >= START_NEXT_UNIT_THRESHOLD

\* C5 amended: unit k+1 receives no STUDY_THEME block on a date before the
\* date on which the STUDY_THEME minutes done on unit k in the state plus the
\* plan's cumulative STUDY_THEME minutes on unit k reach 120.
C5_NextUnitAfter120 ==
    \A i \in BlockIndices :
        (blocks[i].activity = "STUDY_THEME" /\ blocks[i].unit > 1)
          => HistoricalStudyTheme(blocks[i].unit - 1)
               + StudyThemeUpTo(blocks[i].unit - 1, blocks[i].day)
               >= START_NEXT_UNIT_THRESHOLD

\* A plan in which unit 2 has received STUDY_THEME after unit 1 was studied
\* in the plan itself, from a state without history on either unit.
C5_Witness ==
    /\ pc = "done"
    /\ HistoricalStudyTheme(1) = 0
    /\ \E i \in BlockIndices :
          /\ blocks[i].activity = "STUDY_THEME"
          /\ blocks[i].unit = 2
          /\ StudyThemeUpTo(1, blocks[i].day) >= START_NEXT_UNIT_THRESHOLD

(***************************************************************************)
(* C6: weeks 1-2 are theory only.  The allocator is applied to budgets and *)
(* contexts drawn from bounded sets, and the day builder runs on from them.*)
(***************************************************************************)
\* Budgets: the streams' remaining minutes at none, half or all of the planned
\* minutes (case practice holding what was scheduled of cases), with the first
\* unit not started, half studied or completely studied.
ProbeBudgets ==
    { [ createGlobalBudget(calculateCapacity(inp)) EXCEPT
          !.theoryRemaining = (@ * t) \div 2 - s,
          !.casesRemaining = (@ * c) \div 2,
          !.programmingRemaining = (@ * p) \div 2,
          !.casePracticeScheduled = (calculateCapacity(inp).casesPlanned * (2 - c)) \div 2,
          !.unitTheoryRemaining[1].studyThemeDone = s,
          !.unitTheoryRemaining[1].studyThemeRemaining = STUDY_THEME_MINUTES - s,
          !.unitTheoryRemaining[1].totalRemaining = THEORY_ENVELOPE_MINUTES - s ] :
        inp \in {i \in FormInputs : i.unitsCount = MaxUnits},
        t \in {1, 2}, c \in {0, 1, 2}, p \in {0, 2}, s \in {0, 120, 240} }

\* Contexts at the start of a generation: last week's cases and programming
\* minutes and the minutes already scheduled this week.
ProbeContexts ==
    { [ InitialContext EXCEPT
          !.lastWeekCasesMinutes = lc,
          !.lastWeekProgrammingMinutes = lp,
          !.thisWeekTheory = tw ] :
        lc \in {0, 60}, lp \in {0, 60}, tw \in {0, 120} }

ProbeInputs ==
    { i \in FormInputs :
        /\ i.today = <<2026, 1, 1>>
        /\ i.examDate = <<2026, 2, 5>>
        /\ i.unitsCount = MaxUnits
        /\ i.avail \in { WeekOfMinutes(<<240, 240, 240, 240, 240, 0, 0>>),
                          WeekOfMinutes(<<90, 45, 10, 251, 60, 0, 480>>) } }

InitAlloc ==
    /\ inputs \in ProbeInputs
    /\ capacity = calculateCapacity(inputs)
    /\ state = deriveInitialState(inputs, capacity)
    /\ budget \in { b \in ProbeBudgets : b.theoryPlanned = capacity.theoryPlanned }
    /\ ctx \in ProbeContexts
    /\ pc = "day"
    /\ dayOffset \in {0, 7}
    /\ remaining = 0
    /\ days = [d \in 1..dayOffset |-> DayRecord(d - 1, 0)]
    /\ blocks = <<>>
    /\ tracking = InitialTracking
    /\ call = NoCall
    /\ baseline = NoBaseline

NextAlloc ==
    \/ StartDay
    \/ DrainBlock
    \/ TailBlock
    \/ EndDay
    \/ Finish

SpecAlloc == InitAlloc /\ [][NextAlloc]_vars

NonTheoryActivities == CasesActivities \cup {"PROGRAMMING_BLOCK"}

\* C6: for the budget and context at hand, selectActivity and
\* selectActivityWithSmoothing called with week index 1 or 2 never return
\* CASE_PRACTICE, CASE_MOCK or PROGRAMMING_BLOCK, and no block of the first
\* 14 days of the plan is a cases or programming block.
C6_TheoryOnlyWeeks ==
    /\ \A wi \in {1, 2} :
          /\ selectActivity(budget, wi, ctx).act \notin NonTheoryActivities
          /\ selectActivityWithSmoothing(budget, [ctx EXCEPT !.weekIndex = wi]).act
                \notin NonTheoryActivities
    /\ \A i \in BlockIndices :
          blocks[i].day < 14 => blocks[i].activity \notin NonTheoryActivities

\* A day of week 2 is being filled, theory blocks were emitted in the first 14
\* days, and the week >= 3 rules would pick cases for this very budget and
\* context (cases remain and last week had none).
C6_Witness ==
    /\ pc = "fill"
    /\ ctx.weekIndex = 2
    /\ blocks # <<>>
    /\ budget.casesRemaining > 0
    /\ ctx.lastWeekCasesMinutes = 0
    /\ selectActivity(budget, 3, ctx).act \in CasesActivities
    /\ selectActivityWithSmoothing(budget, ctx).act \in TheoryActivities

(***************************************************************************)
(* C7: blocks lie in [todayISO, examDate], none in the reserved tail       *)
(***************************************************************************)
\* First offset of the reserve: the last two of the ceil(totalDays / 7) weeks
ReserveStart == 7 * Max2(0, CeilDiv(TotalDays, 7) - 2)

BlockDate(i) == days[blocks[i].day + 1].date

\* C7: every block falls on a date within [todayISO, examDate], and no block
\* falls on a day at offset >= effectivePlanningWeeks * 7 from todayISO, the
\* planning weeks being all weeks to the exam but the last two.
C7_BlocksInPlanningWindow ==
    \A i \in BlockIndices :
        /\ IsoLeq(inputs.today, BlockDate(i))
        /\ IsoLeq(BlockDate(i), inputs.examDate)
        /\ blocks[i].day < ReserveStart
        /\ blocks[i].day < capacity.effectivePlanningWeeks * 7

\* A finished plan with blocks on the last planning day, days with
\* availability in the reserve, and no block on them.
C7_Witness ==
    /\ pc = "done"
    /\ \E i \in BlockIndices : blocks[i].day = ReserveStart - 1
    /\ \E j \in 1..Len(days) : j - 1 >= ReserveStart /\ days[j].available >= 240

(***************************************************************************)
(* C8: no retroactive days                                                 *)
(***************************************************************************)
\* C8: the plan contains only days with date >= todayISO, and its first day,
\* when it has one, is exactly todayISO.
C8_NoDayBeforeToday ==
    /\ \A j \in 1..Len(days) : IsoLeq(inputs.today, days[j].date)
    /\ Len(days) >= 1 => days[1].date = inputs.today

\* A finished plan regenerated from a feedback history with a later today
\* and a month boundary among its days.
C8_Witness ==
    /\ pc = "done"
    /\ inputs.today = <<2026, 1, 6>>
    /\ state # deriveInitialState(inputs, capacity)
    /\ Len(days) >= 30
    /\ days[Len(days)].date[2] = 2
    /\ blocks # <<>>


(***************************************************************************)
(* The unlock-based generatePlan (generator.ts, policy.ts, rules.ts):      *)
(* quiz first, 14-day and 48-hour reviews, then a selection loop gated by  *)
(* accumulated hours and the final week.  Minutes are integers.            *)
(***************************************************************************)
REVIEW_48H_WINDOW == 2

REVIEW_14D_HARD_LIMIT == 14

LOW_AVAILABILITY_THRESHOLD == 30

QUIZ_BLOCK_DURATION == 15

BLOCKS_PER_DAY == [min |-> 2, max |-> 4]

\* targets.ts is not part of the sources at hand; policy.ts documents the
\* unlock as "After 14h".
EARLY_PERIOD_HOURS == 14

SESSION_CAPS ==
    [ THEME_STUDY |-> 60, REPASO_BLOCK |-> 45, CASE_PRACTICE |-> 45,
      PROGRAMMING |-> 60, SIM_THEORY |-> 90, SIM_CASES |-> 90,
      FEEDBACK_THEORY |-> 30, FEEDBACK_CASES |-> 30, FREE_STUDY |-> 30,
      FINAL_REPASO_GENERAL |-> 45, FINAL_SIM_THEORY |-> 90, FINAL_SIM_CASES |-> 90 ]

checkUnlocks(accumulatedHours, daysRemaining) ==
    LET earlyPeriodComplete == HoursAtLeast(accumulatedHours, EARLY_PERIOD_HOURS)
    IN  [ casesUnlocked |-> earlyPeriodComplete,
          programmingUnlocked |-> earlyPeriodComplete,
          simulationsUnlocked |-> earlyPeriodComplete,
          finalPhaseActive |-> daysRemaining <= 7 ]

\* policy.ts 66-74; "THROWS" stands for the Error thrown for an activity
\* that has no feedback pair
getFeedbackActivity(simActivity) ==
    IF simActivity \in {"SIM_THEORY", "FINAL_SIM_THEORY"} THEN "FEEDBACK_THEORY"
    ELSE IF simActivity \in {"SIM_CASES", "FINAL_SIM_CASES"} THEN "FEEDBACK_CASES"
    ELSE "THROWS"

\* Block of the day being built.  mapActivityToBlock keeps the unit for
\* THEME_STUDY and REPASO_BLOCK, names "Programación" (-1) for PROGRAMMING and
\* null (0) otherwise; the quiz and diagnostic blocks carry their type.
mapActivityToBlock(seq, activity, minutes, unit) ==
    [ day |-> dayOffset,
      index |-> Len(SelectSeq(seq, LAMBDA b : b.day = dayOffset)),
      activity |-> activity,
      unit |-> IF activity \in {"THEME_STUDY", "REPASO_BLOCK"} THEN unit
               ELSE IF activity = "PROGRAMMING" THEN -1 ELSE 0,
      durationMinutes |-> minutes ]

RECURSIVE SumDurations(_)
SumDurations(seq) ==
    IF seq = <<>> THEN 0
    ELSE Head(seq).durationMinutes + SumDurations(Tail(seq))

\* Units last studied REVIEW_14D_HARD_LIMIT days ago or more
CriticalReviews(t, currentDate) ==
    { u \in 1..UNIT_COUNT :
        /\ t.lastStudiedAt[u] # <<>>
        /\ diffDays(t.lastStudiedAt[u], currentDate) >= REVIEW_14D_HARD_LIMIT }

\* Head of criticalReviews after the sort: most overdue first, key order on ties
MostOverdue(t, currentDate) ==
    LET S == CriticalReviews(t, currentDate)
        since(u) == diffDays(t.lastStudiedAt[u], currentDate)
    IN  CHOOSE u \in S :
            \A v \in S : since(u) > since(v) \/ (since(u) = since(v) /\ u <= v)

\* Units first studied 1-2 days ago and not studied since
Deferred48hReviews(t, currentDate) ==
    { u \in 1..UNIT_COUNT :
        /\ t.firstStudiedAt[u] # <<>>
        /\ LET daysSinceFirst == diffDays(t.firstStudiedAt[u], currentDate)
               lastStudyDays == IF t.lastStudiedAt[u] # <<>>
                                THEN diffDays(t.lastStudiedAt[u], currentDate)
                                ELSE daysSinceFirst
           IN  /\ daysSinceFirst >= 1
               /\ daysSinceFirst <= REVIEW_48H_WINDOW
               /\ lastStudyDays = daysSinceFirst }

\* THEME_STUDY on the next unit not yet assigned, without a unit once all are
ThemeStudy(t, currentDate) ==
    IF t.nextUnitIndex < UNIT_COUNT
    THEN LET u == t.nextUnitIndex + 1
         IN  [ activity |-> "THEME_STUDY", unit |-> u,
               tracking |->
                 [t EXCEPT !.firstStudiedAt[u] = IF @ = <<>> THEN currentDate ELSE @,
                           !.lastStudiedAt[u] = currentDate,
                           !.nextUnitIndex = @ + 1] ]
    ELSE [ activity |-> "THEME_STUDY", unit |-> 0, tracking |-> t ]

\* generator.ts 359-438: the activity of selection-loop pass t.i of day dayIndex
\* with rem minutes left, and the trackers after choosing it.
selectUnlockActivity(t, dayIndex, rem, currentDate) ==
    LET unlocks == checkUnlocks(t.accumulatedHours, TotalDays - dayIndex)
        targets == inputs.targets
        rotationIndex == (dayIndex + t.i) % 4
        simulation(activity, field) ==
            [ activity |-> activity, unit |-> 0,
              tracking |-> [t EXCEPT !.needsFeedback = activity, ![field] = @ + 1] ]
    IN  IF unlocks.finalPhaseActive
        THEN IF /\ t.simTheoryCompleted < targets.simTheoryCount
                /\ rem >= SESSION_CAPS.FINAL_SIM_THEORY + SESSION_CAPS.FEEDBACK_THEORY
             THEN simulation("FINAL_SIM_THEORY", "simTheoryCompleted")
             ELSE IF /\ t.simCasesCompleted < targets.simCasesCount
                     /\ rem >= SESSION_CAPS.FINAL_SIM_CASES + SESSION_CAPS.FEEDBACK_CASES
             THEN simulation("FINAL_SIM_CASES", "simCasesCompleted")
             ELSE [ activity |-> "FINAL_REPASO_GENERAL", unit |-> 0, tracking |-> t ]
        ELSE IF /\ ~unlocks.casesUnlocked
                /\ ~unlocks.programmingUnlocked
                /\ ~unlocks.simulationsUnlocked
        THEN ThemeStudy(t, currentDate)
        ELSE IF rotationIndex = 0 /\ t.casesCompleted < targets.casesTarget
        THEN [ activity |-> "CASE_PRACTICE", unit |-> 0,
               tracking |-> [t EXCEPT !.casesCompleted = @ + 1] ]
        ELSE IF /\ rotationIndex = 1
                /\ t.programmingHalfHours < 2 * targets.programmingHoursTarget
                /\ inputs.planProgramming
        THEN [ activity |-> "PROGRAMMING", unit |-> 0,
               tracking |-> [t EXCEPT !.programmingHalfHours = @ + 1] ]
        ELSE IF /\ rotationIndex = 2
                /\ t.simTheoryCompleted < targets.simTheoryCount
                /\ rem >= SESSION_CAPS.SIM_THEORY + SESSION_CAPS.FEEDBACK_THEORY
        THEN simulation("SIM_THEORY", "simTheoryCompleted")
        ELSE IF /\ rotationIndex = 3
                /\ t.simCasesCompleted < targets.simCasesCount
                /\ rem >= SESSION_CAPS.SIM_CASES + SESSION_CAPS.FEEDBACK_CASES
        THEN simulation("SIM_CASES", "simCasesCompleted")
        ELSE ThemeStudy(t, currentDate)

\* Results of calculateTargets for the tests' inputs.  targets.ts is not part
\* of the sources at hand; targets.test.ts fixes casesTarget = 25 for inputs
\* without themesCount and presentedBefore = false, and a programming target
\* that is positive exactly when planProgramming is set.  The size of the
\* programming target and the simulation counts are not fixed by any source:
\* they are drawn from small sets.
DefaultCasesTarget == 25

ProgrammingHoursTargets == {10}

SimulationCounts == {0, 2}

UnlockTargets(planProgramming) ==
    { [ casesTarget |-> DefaultCasesTarget,
        programmingHoursTarget |-> IF planProgramming THEN h ELSE 0,
        simTheoryCount |-> n, simCasesCount |-> n ] :
        h \in ProgrammingHoursTargets, n \in SimulationCounts }

\* availabilityHoursByWeekday in minutes: the tests' default week, four-hour
\* weekdays, quarter-hour days, a week with days under 30 minutes, and a
\* week with a three-hour day followed by a one-hour day and a rest day.
UnlockAvailabilities ==
    { a \in { WeekOfMinutes(w) : w \in { <<120, 120, 120, 120, 120, 180, 60>>,
                                          <<240, 240, 240, 240, 240, 0, 0>>,
                                          <<15, 15, 15, 15, 15, 15, 15>>,
                                          <<12, 20, 480, 300, 90, 45, 30>>,
                                          <<120, 120, 180, 60, 0, 120, 120>> } } :
        WholeMinuteWeek(a) }

UnlockInputs ==
    UNION { { [ today |-> <<2025, 1, 1>>, examDate |-> e, avail |-> a,
                unitsCount |-> MaxUnits, alreadyStudying |-> s,
                planProgramming |-> p, targets |-> g ] :
              e \in { <<2025, 2, 15>>, <<2025, 1, 15>> }, a \in UnlockAvailabilities,
              s \in BOOLEAN, g \in UnlockTargets(p) } : p \in BOOLEAN }

\* rules.ts 34
DIAGNOSTIC_DAYS == [min |-> 3, max |-> 5]

\* state.ts 405-432: five diagnostic days from 20 weekly hours, four from 10,
\* three below, never more than totalDays; they are the first days of the
\* plan.  weeklyHours is the sum of the seven doubles from Monday on.
scheduleDiagnostics(inp, totalDays) ==
    LET hoursOf(i) == DoubleOfHours(inp.avail[i])
        weeklyHours ==
            AddHours(AddHours(AddHours(AddHours(AddHours(AddHours(AddHours(
                DoubleOfHours(0), hoursOf(1)), hoursOf(2)), hoursOf(3)), hoursOf(4)),
                hoursOf(5)), hoursOf(6)), hoursOf(7))
        byAvailability == IF HoursAtLeast(weeklyHours, 20) THEN DIAGNOSTIC_DAYS.max
                          ELSE IF HoursAtLeast(weeklyHours, 10) THEN 4
                          ELSE DIAGNOSTIC_DAYS.min
        totalDiagnosticDays == Min2(byAvailability, totalDays)
    IN  [ diagnosticDays |-> 0..(totalDiagnosticDays - 1),
          totalDiagnosticDays |-> totalDiagnosticDays ]

\* generator.ts 163-171: diagnostics are scheduled when alreadyStudying
diagnosticDays ==
    IF inputs.alreadyStudying /\ TotalDays > 0
    THEN scheduleDiagnostics(inputs, TotalDays).diagnosticDays
    ELSE {}

InitUnlock ==
    /\ inputs \in UnlockInputs
    /\ capacity = calculateCapacity(inputs)
    /\ state = deriveInitialState(inputs, capacity)
    /\ budget = createGlobalBudget(capacity)
    /\ ctx = InitialContext
    /\ pc = "uday"
    /\ dayOffset = 0
    /\ remaining = 0
    /\ days = <<>>
    /\ blocks = <<>>
    /\ tracking = InitialTracking
    /\ call = NoCall
    /\ baseline = NoBaseline

\* generator.ts 468-475: the DayPlan pushed; totalHours is the double nearest
\* totalMinutes / 60
UnlockDay(d, seq) ==
    [ date |-> addDays(inputs.today, d),
      weekday |-> getWeekday(addDays(inputs.today, d)),
      totalMinutes |-> SumDurations(SelectSeq(seq, LAMBDA b : b.day = d)) ]

\* generator.ts 190-197: availableMinutes = availableHours * 60, a whole
\* number of minutes on the weeks of UnlockAvailabilities
availableMinutes == hoursTimes60OfDay(inputs.avail, inputs.today, dayOffset).quarters \div 4

\* generator.ts 199-208: a day with no availability is a rest day
RestDay ==
    /\ pc = "uday"
    /\ dayOffset < TotalDays
    /\ availableMinutes = 0
    /\ days' = Append(days, UnlockDay(dayOffset, blocks))
    /\ dayOffset' = dayOffset + 1
    /\ UNCHANGED <<pc, inputs, capacity, state, budget, ctx, remaining, blocks, tracking, call, baseline>>

\* generator.ts 210-228: under LOW_AVAILABILITY_THRESHOLD minutes the day holds
\* one quiz block and does not count towards the accumulated hours
LowAvailabilityDay ==
    /\ pc = "uday"
    /\ dayOffset < TotalDays
    /\ availableMinutes # 0
    /\ availableMinutes < LOW_AVAILABILITY_THRESHOLD
    /\ blocks' = Append(blocks,
                        mapActivityToBlock(blocks, "quiz",
                                           Min2(availableMinutes, QUIZ_BLOCK_DURATION), 0))
    /\ days' = Append(days, UnlockDay(dayOffset, blocks'))
    /\ dayOffset' = dayOffset + 1
    /\ UNCHANGED <<pc, inputs, capacity, state, budget, ctx, remaining, tracking, call, baseline>>

\* generator.ts 230-261: the day opens with the quiz block, followed on a
\* diagnostic day by an evaluation block of 30% of the minutes left
NormalDayStart ==
    /\ pc = "uday"
    /\ dayOffset < TotalDays
    /\ availableMinutes >= LOW_AVAILABILITY_THRESHOLD
    /\ LET quizDuration == Min2(QUIZ_BLOCK_DURATION, availableMinutes)
           afterQuiz == availableMinutes - quizDuration
           withQuiz == Append(blocks, mapActivityToBlock(blocks, "quiz", quizDuration, 0))
           evalDuration == Min2(MAX_BLOCK_DURATION, (afterQuiz * 3) \div 10)
           diagnostic == dayOffset \in diagnosticDays /\ afterQuiz >= MIN_BLOCK_DURATION
       IN  IF diagnostic
           THEN /\ blocks' = Append(withQuiz,
                                    mapActivityToBlock(withQuiz, "evaluation",
                                                       Max2(MIN_BLOCK_DURATION, evalDuration), 0))
                /\ remaining' = afterQuiz - Max2(MIN_BLOCK_DURATION, evalDuration)
           ELSE /\ blocks' = withQuiz
                /\ remaining' = afterQuiz
    /\ pc' = "ureview14"
    /\ UNCHANGED <<inputs, capacity, state, budget, ctx, dayOffset, days, tracking, call, baseline>>

\* generator.ts 263-289: REPASO_BLOCK for each unit last studied 14 days ago or
\* more, most overdue first, while MIN_BLOCK_DURATION minutes are left
CriticalReview ==
    /\ pc = "ureview14"
    /\ LET currentDate == addDays(inputs.today, dayOffset)
       IN  IF /\ CriticalReviews(tracking, currentDate) # {}
              /\ remaining >= MIN_BLOCK_DURATION
           THEN LET unit == MostOverdue(tracking, currentDate)
                    reviewDuration ==
                        Min2(SESSION_CAPS.REPASO_BLOCK,
                             Max2(MIN_BLOCK_DURATION, remaining \div 2))
                IN  /\ blocks' = Append(blocks,
                                        mapActivityToBlock(blocks, "REPASO_BLOCK",
                                                           reviewDuration, unit))
                    /\ remaining' = remaining - reviewDuration
                    /\ tracking' = [tracking EXCEPT !.lastStudiedAt[unit] = currentDate,
                                                    !.repasosCompleted = @ + 1]
                    /\ pc' = pc
           ELSE /\ pc' = "ureview48"
                /\ UNCHANGED <<blocks, remaining, tracking>>
    /\ UNCHANGED <<inputs, capacity, state, budget, ctx, dayOffset, days, call, baseline>>

\* generator.ts 291-330: REPASO_BLOCK for each unit first studied within the
\* 48-hour window and not studied since; then the number of blocks the
\* selection loop is to add
Review48h ==
    /\ pc = "ureview48"
    /\ LET currentDate == addDays(inputs.today, dayOffset)
           due == Deferred48hReviews(tracking, currentDate)
       IN  IF due # {} /\ remaining >= MIN_BLOCK_DURATION
           THEN LET unit == CHOOSE u \in due : \A v \in due : u <= v
                    reviewDuration ==
                        Min2(SESSION_CAPS.REPASO_BLOCK,
                             Max2(MIN_BLOCK_DURATION, remaining \div 4))
                IN  /\ blocks' = Append(blocks,
                                        mapActivityToBlock(blocks, "REPASO_BLOCK",
                                                           reviewDuration, unit))
                    /\ remaining' = remaining - reviewDuration
                    /\ tracking' = [tracking EXCEPT !.lastStudiedAt[unit] = currentDate,
                                                    !.repasosCompleted = @ + 1]
                    /\ pc' = pc
           ELSE LET targetBlocks ==
                        Min2(BLOCKS_PER_DAY.max,
                             Max2(BLOCKS_PER_DAY.min,
                                  CeilDiv(remaining * 10, MAX_BLOCK_DURATION * 8)))
                    currentBlockCount ==
                        Len(SelectSeq(blocks, LAMBDA b : b.day = dayOffset))
                IN  /\ tracking' =
                          [tracking EXCEPT
                             !.blocksToAdd = Min2(targetBlocks - currentBlockCount,
                                                  CeilDiv(remaining, MIN_BLOCK_DURATION)),
                             !.i = 0,
                             !.needsFeedback = ""]
                    /\ pc' = "uloop"
                    /\ UNCHANGED <<blocks, remaining>>
    /\ UNCHANGED <<inputs, capacity, state, budget, ctx, dayOffset, days, call, baseline>>

\* generator.ts 335-454: one pass of the selection loop
SelectionBlock ==
    /\ pc = "uloop"
    /\ tracking.i < tracking.blocksToAdd
    /\ remaining >= MIN_BLOCK_DURATION
    /\ IF tracking.needsFeedback # ""
       THEN LET activity == getFeedbackActivity(tracking.needsFeedback)
                feedbackDuration ==
                    Min2(SESSION_CAPS[activity], Max2(MIN_BLOCK_DURATION, remaining))
            IN  /\ blocks' = Append(blocks,
                                    mapActivityToBlock(blocks, activity, feedbackDuration, 0))
                /\ remaining' = remaining - feedbackDuration
                /\ tracking' = [tracking EXCEPT !.needsFeedback = "", !.i = @ + 1]
       ELSE LET sel == selectUnlockActivity(tracking, dayOffset, remaining,
                                            addDays(inputs.today, dayOffset))
                activityCap == SESSION_CAPS[sel.activity]
                blockDuration ==
                    Min2(activityCap,
                         Max2(MIN_BLOCK_DURATION,
                              remaining \div (tracking.blocksToAdd - tracking.i)))
            IN  /\ blocks' = Append(blocks,
                                    mapActivityToBlock(blocks, sel.activity,
                                                       blockDuration, sel.unit))
                /\ remaining' = remaining - blockDuration
                /\ tracking' = [sel.tracking EXCEPT !.i = @ + 1]
    /\ UNCHANGED <<pc, inputs, capacity, state, budget, ctx, dayOffset, days, call, baseline>>

\* generator.ts 456-478: residual FREE_STUDY, the day is pushed and its hours
\* (minutes / 60, a double) are added to the double accumulatedHours
CloseDay ==
    /\ pc = "uloop"
    /\ ~(tracking.i < tracking.blocksToAdd /\ remaining >= MIN_BLOCK_DURATION)
    /\ LET freeStudyDuration == Min2(SESSION_CAPS.FREE_STUDY, remaining)
       IN  IF remaining >= MIN_BLOCK_DURATION
           THEN /\ blocks' = Append(blocks,
                                    mapActivityToBlock(blocks, "FREE_STUDY",
                                                       freeStudyDuration, 0))
                /\ remaining' = remaining - freeStudyDuration
           ELSE UNCHANGED <<blocks, remaining>>
    /\ days' = Append(days, UnlockDay(dayOffset, blocks'))
    /\ tracking' = [tracking EXCEPT
                      !.accumulatedHours =
                          AddHours(@, DoubleOfHours(4 * UnlockDay(dayOffset, blocks').totalMinutes))]
    /\ dayOffset' = dayOffset + 1
    /\ pc' = "uday"
    /\ UNCHANGED <<inputs, capacity, state, budget, ctx, call, baseline>>

\* generator.ts 481-529: the plan is returned after the last day
ReturnPlan ==
    /\ pc = "uday"
    /\ dayOffset >= TotalDays
    /\ pc' = "done"
    /\ UNCHANGED <<inputs, capacity, state, budget, ctx, dayOffset, remaining, days,
                   blocks, tracking, call, baseline>>

NextUnlock ==
    \/ RestDay
    \/ LowAvailabilityDay
    \/ NormalDayStart
    \/ CriticalReview
    \/ Review48h
    \/ SelectionBlock
    \/ CloseDay
    \/ ReturnPlan

SpecUnlock == InitUnlock /\ [][NextUnlock]_vars

(***************************************************************************)
(* C9: block duration bounds                                               *)
(***************************************************************************)
\* C9: every block of the plan lasts at least MIN_BLOCK_DURATION (15) and at
\* most MAX_BLOCK_DURATION (60) minutes, whatever the availability pattern and
\* the activity.
C9_BlockDurationBounds ==
    \A i \in BlockIndices :
        /\ MIN_BLOCK_DURATION <= blocks[i].durationMinutes
        /\ blocks[i].durationMinutes <= MAX_BLOCK_DURATION


(***************************************************************************)
(* Feedback folding: applyFeedbackEvents called on a state, again on its   *)
(* result, and so on.  Each call is made on the caller's state object in   *)
(* memory; the caller reads its argument again after the call.             *)
(***************************************************************************)
MaxCalls == 2

SessionFeedbacks(activity, feel, n) == [ i \in 1..n |-> SessionFeedback(activity, feel) ]

\* Event lists handed to applyFeedbackEvents: quiz results below, at and above
\* the threshold, on a unit that does not exist, completions within and beyond
\* the required minutes, of zero and negative minutes, and session feedback of
\* every feel, twenty in a row as in SF-05.
FeedbackLists ==
    { << QuizResult(1, 45) >>,
      << QuizResult(1, 45), QuizResult(1, 45) >>,
      << QuizResult(2, 60) >>,
      << QuizResult(1, 75) >>,
      << QuizResult(9, 10) >>,
      << BlockCompleted("STUDY_THEME", 1, 120) >>,
      << BlockCompleted("STUDY_THEME", 1, 300) >>,
      << BlockCompleted("REVIEW", 2, 0), BlockCompleted("QUIZ", 2, -5) >>,
      << BlockCompleted("CASE_MOCK", 0, 90), BlockCompleted("FLASHCARD", 7, 30) >>,
      << BlockCompleted("PROGRAMMING_BLOCK", 0, 9000) >>,
      SessionFeedbacks("STUDY_THEME", "too_much", 20),
      SessionFeedbacks("STUDY_THEME", "more", 20),
      << SessionFeedback("QUIZ", "too_much"), SessionFeedback("REVIEW", "ok") >>,
      << SessionFeedback("REVIEW", "more"), QuizResult(2, 30) >>,
      << QuizResult(9, 10), QuizResult(1, 45),
         BlockCompleted("STUDY_THEME", 0, 60), BlockCompleted("PODCAST", 1, 30) >>,
      << BlockCompleted("QUIZ", 7, 30), SessionFeedback("REVIEW", "too_much"),
         BlockCompleted("CASE_PRACTICE", 0, 45) >> }

FeedbackInputs ==
    { inp \in FormInputs :
        /\ inp.today = <<2026, 1, 1>>
        /\ inp.examDate \in { <<2026, 2, 5>>, <<2026, 1, 13>> }
        /\ inp.avail \in { WeekOfMinutes(<<240, 240, 240, 240, 240, 0, 0>>),
                            WeekOfMinutes(<<90, 45, 10, 251, 60, 0, 480>>) } }

InitFeedback ==
    /\ Init
    /\ inputs \in FeedbackInputs

\* updated = applyFeedbackEvents(state, events); the caller goes on with
\* updated.  The caller's state object lies at address 1 of the heap.
FeedbackCall ==
    /\ pc \in {"derived", "fed"}
    /\ call.count < MaxCalls
    /\ \E events \in FeedbackLists :
        LET returned == applyFeedbackEventsOnHeap(StateObjects(state, 0), 1, events)
            updated == ReadState(returned.heap, returned.root)
        IN  /\ call' = [ count |-> call.count + 1,
                         events |-> events,
                         input |-> state,
                         inputAfter |-> ReadState(returned.heap, 1),
                         result |-> updated,
                         resultIsNew |-> returned.root # 1 ]
            /\ state' = updated
    /\ pc' = "fed"
    /\ UNCHANGED <<inputs, capacity, budget, ctx, dayOffset, remaining, days, blocks,
                   tracking, baseline>>

SpecFeedback == InitFeedback /\ [][FeedbackCall]_vars


UnitFields == {"studyTheme", "review", "podcast", "flashcard", "quiz"}

(***************************************************************************)
(* C11: done never exceeds required                                        *)
(***************************************************************************)
\* C11: after applyFeedbackEvents every done counter is at most its required
\* counter: per unit and theory activity, casesDone <= casesRequired and
\* programmingDone <= programmingRequired.
C11_DoneWithinRequired ==
    call.count > 0 =>
        /\ \A u \in DOMAIN state.units : \A f \in UnitFields :
              state.units[u].done[f] <= state.units[u].required[f]
        /\ state.global.casesDone <= state.global.casesRequired
        /\ state.global.programmingDone <= state.global.programmingRequired


(***************************************************************************)
(* C12: a failing quiz adds 30 review minutes, and it accumulates          *)
(***************************************************************************)
RECURSIVE FailingQuizzes(_, _)
\* Number of QUIZ_RESULT events of the list on unit u with a score under 60
FailingQuizzes(events, u) ==
    IF events = <<>> THEN 0
    ELSE FailingQuizzes(Tail(events), u)
            + ( IF /\ Head(events).type = "QUIZ_RESULT"
                   /\ Head(events).unit = u
                   /\ Head(events).score < QUIZ_FAIL_THRESHOLD
                THEN 1 ELSE 0 )

QuizResultsOnKnownUnits(events, st) ==
    /\ events # <<>>
    /\ \A i \in 1..Len(events) :
          events[i].type = "QUIZ_RESULT" /\ events[i].unit \in DOMAIN st.units

\* C12: for a call whose events are QUIZ_RESULT events on known units,
\* required.review of each unit in the result is its value before plus 30 for
\* each event on that unit with score < 60, no other required value changes,
\* and the result of a call is the state the next call starts from, so that the
\* same failing event applied n times raises required.review by 30 * n.
C12_FailingQuizAddsReview ==
    (call.count > 0 /\ QuizResultsOnKnownUnits(call.events, call.input)) =>
        /\ \A u \in DOMAIN call.input.units :
              /\ call.result.units[u].required.review =
                    call.input.units[u].required.review
                        + REVIEW_BOOST_MINUTES * FailingQuizzes(call.events, u)
              /\ \A f \in UnitFields \ {"review"} :
                    call.result.units[u].required[f] = call.input.units[u].required[f]
        /\ call.result.global.casesRequired = call.input.global.casesRequired
        /\ call.result.global.programmingRequired = call.input.global.programmingRequired
        /\ state = call.result

\* The failing quiz on unit 1 applied in a second call, on a state it had
\* already raised: required.review is 60 + 30 * 2 or more.
C12_Witness ==
    /\ call.count = 2
    /\ call.events = << QuizResult(1, 45) >>
    /\ call.input.units[1].required.review >= REVIEW_MINUTES + REVIEW_BOOST_MINUTES
    /\ state.units[1].required.review >= REVIEW_MINUTES + 2 * REVIEW_BOOST_MINUTES


(***************************************************************************)
(* C13: preferences stay within their bounds                               *)
(***************************************************************************)
\* C13: after applyFeedbackEvents every activity's target duration lies within
\* the activity's [min, max] bounds; twenty successive too_much events on
\* STUDY_THEME leave its target at 30 and twenty successive more events at 90.
C13_PrefsWithinBounds ==
    call.count > 0 =>
        /\ \A a \in Activities :
              /\ ACTIVITY_BOUNDS[a].min <= state.prefs[a]
              /\ state.prefs[a] <= ACTIVITY_BOUNDS[a].max
        /\ call.events = SessionFeedbacks("STUDY_THEME", "too_much", 20)
              => state.prefs["STUDY_THEME"] = 30
        /\ call.events = SessionFeedbacks("STUDY_THEME", "more", 20)
              => state.prefs["STUDY_THEME"] = 90

\* Twenty too_much events applied to a state whose STUDY_THEME target was at
\* its maximum of 90
C13_Witness ==
    /\ call.count = 2
    /\ call.events = SessionFeedbacks("STUDY_THEME", "too_much", 20)
    /\ call.input.prefs["STUDY_THEME"] = 90
    /\ state.prefs["STUDY_THEME"] = 30


(***************************************************************************)
(* C14: slack after feedback                                               *)
(***************************************************************************)
DoneUnchanged(before, after) ==
    /\ \A u \in DOMAIN before.units : after.units[u].done = before.units[u].done
    /\ after.global.casesDone = before.global.casesDone
    /\ after.global.programmingDone = before.global.programmingDone

RequiredGrowth(before, after) ==
    computeTotalRequired(after.units, after.global)
        - computeTotalRequired(before.units, before.global)

\* C14: when a call increases total required minutes by D and leaves every
\* done counter unchanged, the resulting slackMinutes is the previous
\* slackMinutes minus D, against an unchanged effectiveCapacityFuture.
C14_SlackDropsByGrowth ==
    ( /\ call.count > 0
      /\ DoneUnchanged(call.input, call.result)
      /\ RequiredGrowth(call.input, call.result) > 0 ) =>
        /\ call.result.slack.slackMinutes =
              LessMinutes(call.input.slack.slackMinutes,
                          RequiredGrowth(call.input, call.result))
        /\ call.result.slack.effectiveCapacityFuture =
              call.input.slack.effectiveCapacityFuture


(***************************************************************************)
(* C15: applyFeedbackEvents leaves its argument alone                      *)
(***************************************************************************)
\* C15: after a call the argument state is field by field what it was before
\* the call, and the result is a new object.
C15_InputNotModified ==
    call.count > 0 =>
        /\ \A f \in DOMAIN call.input : call.inputAfter[f] = call.input[f]
        /\ call.resultIsNew

\* A call that changed units and preferences in its result
C15_Witness ==
    /\ call.count > 0
    /\ call.resultIsNew
    /\ call.result.units # call.input.units
    /\ call.result.prefs # call.input.prefs
    /\ call.inputAfter = call.input


(***************************************************************************)
(* Stream totals of a plan (debugInfo)                                     *)
(***************************************************************************)
\* Sum of durationMinutes of seq[lo..hi], by halves so that long plans are
\* summed with a shallow recursion
RECURSIVE SumRange(_, _, _)
SumRange(seq, lo, hi) ==
    IF lo > hi THEN 0
    ELSE IF lo = hi THEN seq[lo].durationMinutes
    ELSE LET mid == (lo + hi) \div 2
         IN  SumRange(seq, lo, mid) + SumRange(seq, mid + 1, hi)

BlockMinutes(seq) == SumRange(seq, 1, Len(seq))

StreamScheduled(activities) ==
    BlockMinutes(SelectSeq(blocks, LAMBDA b : b.activity \in activities))

theoryScheduled == StreamScheduled(TheoryActivities)

casesScheduled == StreamScheduled(CasesActivities)

programmingScheduled == StreamScheduled({"PROGRAMMING_BLOCK"})

totalScheduled == theoryScheduled + casesScheduled + programmingScheduled

(***************************************************************************)
(* C16: a plan with buffer schedules 95% of the planned minutes            *)
(***************************************************************************)
\* C16: for a plan generated from the inputs alone, when the capacity's
\* bufferStatus is good or edge the finished plan's totalScheduled is at
\* least 0.95 * plannedMinutes.
C16_ScheduledCoversPlanned ==
    ( /\ pc = "done"
      /\ state = deriveInitialState(inputs, capacity)
      /\ capacity.bufferStatus \in {"good", "edge"} ) =>
        100 * totalScheduled >= 95 * capacity.plannedMinutes

(***************************************************************************)
(* Replanning scenarios: a plan is generated from the derived state and    *)
(* kept, a feedback history is applied, and the plan is generated again    *)
(* from the resulting state.                                               *)
(***************************************************************************)
\* capacity.ts: inputs.themesCount ?? 20
DefaultThemesCount == 20

\* createInputs() with TEST_TODAY and TEST_EXAM: four hours Monday to Friday
BaselineInputs ==
    [ today |-> <<2026, 1, 1>>, examDate |-> <<2026, 3, 12>>,
      avail |-> WeekOfMinutes(<<240, 240, 240, 240, 240, 0, 0>>),
      unitsCount |-> DefaultThemesCount ]

\* Four hours on each of the seven weekdays over the same window
EveryDayInputs == [BaselineInputs EXCEPT !.avail = WeekOfMinutes(<<240, 240, 240, 240, 240, 240, 240>>)]

\* Feedback histories of the replanning tests
ScenarioEvents ==
    { << QuizResult(1, 45) >>,
      << QuizResult(1, 75) >>,
      << BlockCompleted("STUDY_THEME", 1, 120) >>,
      << SessionFeedback("STUDY_THEME", "too_much") >>,
      << SessionFeedback("QUIZ", "more"), SessionFeedback("REVIEW", "too_much") >> }

\* Two hours Monday to Friday and eight hours on Sunday over the same window
WeekendCatchUpInputs == [BaselineInputs EXCEPT !.avail = WeekOfMinutes(<<120, 120, 120, 120, 120, 0, 480>>)]

\* Twelve hours on each working day over the same window
FullDayInputs == [BaselineInputs EXCEPT !.avail = WeekOfMinutes(<<720, 720, 720, 720, 720, 0, 0>>)]

InitReplan ==
    /\ inputs \in { BaselineInputs, EveryDayInputs, WeekendCatchUpInputs, FullDayInputs }
    /\ capacity = calculateCapacity(inputs)
    /\ state = deriveInitialState(inputs, capacity)
    /\ pc = "derived"
    /\ budget = createGlobalBudget(capacity)
    /\ ctx = InitialContext
    /\ dayOffset = 0
    /\ remaining = 0
    /\ days = <<>>
    /\ blocks = <<>>
    /\ tracking = InitialTracking
    /\ call = NoCall
    /\ baseline = NoBaseline

\* The finished plan is kept as the baseline, the events are applied to the
\* state it was generated from, and generation starts over from the new state.
Replan ==
    /\ pc = "done"
    /\ ~baseline.kept
    /\ baseline' = [ kept |-> TRUE, blocks |-> blocks ]
    /\ \E events \in ScenarioEvents :
          /\ state' = applyFeedbackEvents(state, events)
          /\ call' = [ call EXCEPT !.count = @ + 1, !.events = events ]
    /\ pc' = "fed"
    /\ days' = <<>>
    /\ blocks' = <<>>
    /\ UNCHANGED <<inputs, capacity, budget, ctx, dayOffset, remaining, tracking>>

NextReplan ==
    \/ StartGeneration
    \/ StartDay
    \/ DrainBlock
    \/ TailBlock
    \/ EndDay
    \/ Finish
    \/ Replan

SpecReplan == InitReplan /\ [][NextReplan]_vars

\* The plan in `blocks` is a finished plan generated from the derived state
FreshPlanDone == pc = "done" /\ ~baseline.kept

\* The plan in `blocks` is a finished replan; baseline.blocks is the plan before it
ReplanDone == pc = "done" /\ baseline.kept

\* x / total lies in [lo/100, hi/100]
RatioWithin(x, total, lo, hi) == lo * total <= 100 * x /\ 100 * x <= hi * total

\* C17: with four hours on each of the seven weekdays, today 2026-01-01, exam
\* 2026-03-12 and 20 units, the plan generated from the derived state has
\* theory/total in [0.45, 0.55], cases/total in [0.25, 0.35] and
\* programming/total in [0.15, 0.25].
C17_StreamRatios ==
    (FreshPlanDone /\ inputs = EveryDayInputs) =>
        /\ totalScheduled > 0
        /\ RatioWithin(theoryScheduled, totalScheduled, 45, 55)
        /\ RatioWithin(casesScheduled, totalScheduled, 25, 35)
        /\ RatioWithin(programmingScheduled, totalScheduled, 15, 25)

C17_Witness ==
    /\ FreshPlanDone
    /\ inputs = EveryDayInputs
    /\ theoryScheduled > 0 /\ casesScheduled > 0 /\ programmingScheduled > 0

\* Longest block of `activity` in the plan bs, 0 when there is none
MaxBlockDuration(bs, activity) ==
    LET ds == { bs[i].durationMinutes : i \in { j \in 1..Len(bs) : bs[j].activity = activity } }
    IN  IF ds = {} THEN 0 ELSE CHOOSE m \in ds : \A x \in ds : x <= m

\* Activities whose target in the current state is below the default target
LoweredActivities ==
    { a \in Activities : state.prefs[a] < ACTIVITY_TARGET_DEFAULTS[a] }

\* C18: no block of a plan generated from a state is longer than that
\* state's preference target for the block's activity clamped to [15, 60],
\* and in a replan from a state with a lowered target the longest block of
\* that activity is not longer than in the baseline plan.
C18_BlockWithinPreference ==
    /\ \A i \in 1..Len(blocks) :
          blocks[i].durationMinutes <= TargetDuration(state.prefs, blocks[i].activity)
    /\ ReplanDone =>
          \A a \in LoweredActivities :
              MaxBlockDuration(blocks, a) <= MaxBlockDuration(baseline.blocks, a)

\* Minutes of `activity` attributed to `unit` in the plan bs
UnitActivityMinutes(bs, activity, unit) ==
    BlockMinutes(SelectSeq(bs, LAMBDA b : b.activity = activity /\ b.unit = unit))

\* The finished replan of the baseline scenario after `events`
BaselineReplanAfter(events) ==
    ReplanDone /\ inputs = BaselineInputs /\ call.events = events

\* C19: in the baseline scenario the replan after QUIZ_RESULT 45 on Unidad 1
\* holds strictly more REVIEW minutes for Unidad 1 than the baseline plan,
\* and the replan after QUIZ_RESULT 75 holds the same REVIEW minutes as the
\* baseline plan for every unit.
C19_FailedQuizAddsReviewMinutes ==
    /\ BaselineReplanAfter(<< QuizResult(1, 45) >>) =>
          UnitActivityMinutes(blocks, "REVIEW", 1)
              > UnitActivityMinutes(baseline.blocks, "REVIEW", 1)
    /\ BaselineReplanAfter(<< QuizResult(1, 75) >>) =>
          \A u \in 1..DefaultThemesCount :
              UnitActivityMinutes(blocks, "REVIEW", u)
                  = UnitActivityMinutes(baseline.blocks, "REVIEW", u)

C19_Witness ==
    /\ BaselineReplanAfter(<< QuizResult(1, 45) >>)
    /\ UnitActivityMinutes(baseline.blocks, "REVIEW", 1) = REVIEW_MINUTES
    /\ UnitActivityMinutes(blocks, "REVIEW", 1) = REVIEW_MINUTES + REVIEW_BOOST_MINUTES

\* C20: in the baseline scenario the replan after BLOCK_COMPLETED
\* {STUDY_THEME, Unidad 1, 120} holds strictly fewer STUDY_THEME minutes for
\* Unidad 1 than the baseline plan, and not a negative amount.
C20_CompletedStudyReducesPlan ==
    BaselineReplanAfter(<< BlockCompleted("STUDY_THEME", 1, 120) >>) =>
        /\ UnitActivityMinutes(blocks, "STUDY_THEME", 1)
              < UnitActivityMinutes(baseline.blocks, "STUDY_THEME", 1)
        /\ UnitActivityMinutes(blocks, "STUDY_THEME", 1) >= 0

C20_Witness ==
    /\ BaselineReplanAfter(<< BlockCompleted("STUDY_THEME", 1, 120) >>)
    /\ UnitActivityMinutes(baseline.blocks, "STUDY_THEME", 1) = STUDY_THEME_MINUTES
    /\ UnitActivityMinutes(blocks, "STUDY_THEME", 1) = STUDY_THEME_MINUTES - 120

(***************************************************************************)
(* Degenerate inputs                                                       *)
(***************************************************************************)
\* Weekday of a calendar date by Zeller's congruence, 0 = Sunday .. 6 =
\* Saturday (January and February count as months 13 and 14 of the year
\* before)
CalendarWeekday(date) ==
    LET m == IF date[2] < 3 THEN date[2] + 12 ELSE date[2]
        y == IF date[2] < 3 THEN date[1] - 1 ELSE date[1]
        saturdayFirst ==
            ( date[3] + ((13 * (m + 1)) \div 5) + (y % 100) + ((y % 100) \div 4)
                + ((y \div 100) \div 4) + 5 * (y \div 100) ) % 7
    IN  (saturdayFirst + 6) % 7

\* hours * 60 of the availability entry of a calendar date, Sunday being
\* entry 6 and Monday .. Saturday entries 0 .. 5
AvailabilityOfDate(date) ==
    hoursTimes60(inputs.avail[<<6, 0, 1, 2, 3, 4, 5>>[CalendarWeekday(date) + 1] + 1])

\* x < n / 2 for a double x of minutes and a whole number n of half minutes
BelowHalves(x, n) == x.quarters < 2 * n \/ (x.quarters = 2 * n /\ x.eps < 0)

NoAvailability == \A w \in 1..7 : inputs.avail[w] = 0

ExamNotAfterToday == IsoLeq(inputs.examDate, inputs.today)

\* C21 as stated: a day whose availability hours * 60 is below 15 minutes has
\* no blocks; with zero availability on every weekday, or with an exam date
\* not after today, the plan holds no block at all and totalScheduled is 0.
C21_ShortDaysStayEmpty ==
    /\ \A i \in 1..Len(blocks) :
          ~BelowHalves(AvailabilityOfDate(days[blocks[i].day + 1].date),
                       2 * MIN_BLOCK_DURATION)
    /\ (NoAvailability \/ ExamNotAfterToday) => (blocks = <<>> /\ totalScheduled = 0)

\* C21, amended: a day whose availability in minutes, hours * 60 rounded to
\* the nearest minute, is below 15 (hours * 60 below 14.5) has no blocks;
\* with zero availability on every weekday, or with an exam date not after
\* today, the plan holds no block at all and totalScheduled is 0.
C21_RoundedShortDaysStayEmpty ==
    /\ \A i \in 1..Len(blocks) :
          ~BelowHalves(AvailabilityOfDate(days[blocks[i].day + 1].date),
                       2 * MIN_BLOCK_DURATION - 1)
    /\ (NoAvailability \/ ExamNotAfterToday) => (blocks = <<>> /\ totalScheduled = 0)

\* A finished plan with blocks in which a day of the planning weeks has 14.25
\* available minutes and stayed empty, and another has 10
C21_Witness ==
    /\ pc \in {"done", "day"}
    /\ blocks # <<>>
    /\ \E i \in 1..Len(days) :
          /\ AvailabilityOfDate(days[i].date) = [quarters |-> 57, eps |-> 0]
          /\ days[i].available = 14
          /\ WeekIndexOf(i - 1) <= capacity.effectivePlanningWeeks
          /\ dayOffset > i - 1
          /\ BlocksOfDay(i - 1) = <<>>

(***************************************************************************)
(* Feedback events on unknown units                                        *)
(***************************************************************************)
\* A QUIZ_RESULT or theory BLOCK_COMPLETED whose unit is not in st.units
\* (unit 0: the event carries no unit)
UnknownUnitEvent(st, event) ==
    /\ event.unit \notin DOMAIN st.units
    /\ \/ event.type = "QUIZ_RESULT"
       \/ event.type = "BLOCK_COMPLETED" /\ event.activity \in TheoryActivities

KnownEvents(st, events) == SelectSeq(events, LAMBDA e : ~UnknownUnitEvent(st, e))

\* C22: events that name a unit not in state.units change no required or
\* done value, and the other events of the list have their normal effect:
\* the call returns what it returns for the list without those events.
C22_UnknownUnitSkipped ==
    call.count > 0 =>
        /\ call.result = applyFeedbackEvents(call.input, KnownEvents(call.input, call.events))
        /\ KnownEvents(call.input, call.events) = <<>> =>
              /\ call.result.units = call.input.units
              /\ call.result.global = call.input.global

\* A list with unknown-unit events before a failing quiz and a completed
\* PODCAST block on Unidad 1: both later events took effect
C22_Witness ==
    /\ call.count > 0
    /\ Len(call.events) = 4
    /\ UnknownUnitEvent(call.input, call.events[1])
    /\ UnknownUnitEvent(call.input, call.events[3])
    /\ call.result.units[1].required.review
          = call.input.units[1].required.review + REVIEW_BOOST_MINUTES
    /\ call.result.units[1].done.podcast = call.input.units[1].done.podcast + 30
    /\ call.result.units[1].done.studyTheme = call.input.units[1].done.studyTheme

(***************************************************************************)
(* Weekly actuals                                                          *)
(***************************************************************************)
StreamActivities ==
    [ theory |-> TheoryActivities,
      cases |-> CasesActivities,
      programming |-> {"PROGRAMMING_BLOCK"} ]

\* weeklyActuals: minutes of a stream in the week with index w
WeekStreamMinutes(w, stream) ==
    BlockMinutes(SelectSeq(blocks,
        LAMBDA b : WeekIndexOf(b.day) = w /\ b.activity \in StreamActivities[stream]))

WeekTotalMinutes(w) ==
    WeekStreamMinutes(w, "theory") + WeekStreamMinutes(w, "cases")
        + WeekStreamMinutes(w, "programming")

StreamsWithMinutes(w) ==
    { stream \in DOMAIN StreamActivities : WeekStreamMinutes(w, stream) > 0 }

\* Remaining budget of a stream at the start of week w: the budget the plan
\* was generated from less the minutes scheduled in the weeks before w
RemainingAtWeekStart(w, stream) ==
    LET start == createBudgetFromState(state)
        initial == CASE stream = "theory" -> start.theoryRemaining
                     [] stream = "cases" -> start.casesRemaining
                     [] stream = "programming" -> start.programmingRemaining
    IN  initial - BlockMinutes(SelectSeq(blocks,
            LAMBDA b : WeekIndexOf(b.day) < w /\ b.activity \in StreamActivities[stream]))

StreamsOpenAt(w) ==
    { stream \in DOMAIN StreamActivities : RemainingAtWeekStart(w, stream) > 0 }

\* C23 as stated: in a generated plan every week after week 2 with at least
\* 60 scheduled minutes holds minutes of at least two of the three streams.
C23_NoSingleStreamWeeksInPlan ==
    pc = "done" =>
        \A w \in 3..Max2(3, capacity.totalWeeks) :
            WeekTotalMinutes(w) >= WEEKLY_MINIMUM_MINUTES =>
                Cardinality(StreamsWithMinutes(w)) >= 2

\* C23: in a generated plan every week after week 2 that holds at least 120
\* scheduled minutes (twice the weekly floor) and at whose start at least two
\* streams have remaining budget holds minutes of at least two streams.
C23_NoSingleStreamWeeks ==
    pc = "done" =>
        \A w \in 3..Max2(3, capacity.totalWeeks) :
            ( /\ WeekTotalMinutes(w) >= 2 * WEEKLY_MINIMUM_MINUTES
              /\ Cardinality(StreamsOpenAt(w)) >= 2 ) =>
                Cardinality(StreamsWithMinutes(w)) >= 2

\* A finished plan whose week 3 holds at least 120 minutes in two streams
\* and whose week 4 holds a single stream because the others are used up
C23_Witness ==
    /\ pc = "done"
    /\ WeekTotalMinutes(3) >= 2 * WEEKLY_MINIMUM_MINUTES
    /\ Cardinality(StreamsOpenAt(3)) >= 2
    /\ Cardinality(StreamsWithMinutes(3)) >= 2
    /\ WeekTotalMinutes(4) >= 2 * WEEKLY_MINIMUM_MINUTES
    /\ Cardinality(StreamsWithMinutes(4)) = 1

(***************************************************************************)
(* Activation of units for secondary theory                                *)
(***************************************************************************)
\* STUDY_THEME minutes of `unit` in the blocks before block i, in block order
StudyThemeBeforeBlock(unit, i) ==
    UnitActivityMinutes(SubSeq(blocks, 1, i - 1), "STUDY_THEME", unit)

\* C24 as stated: whenever a PODCAST, FLASHCARD, QUIZ or REVIEW block
\* attributed to unit U appears in a generated plan, the STUDY_THEME minutes
\* scheduled for U in the earlier blocks of the plan total at least 120.
C24_SecondaryAfter120InPlan ==
    \A i \in 1..Len(blocks) :
        (blocks[i].activity \in SecondaryActivities /\ blocks[i].unit > 0) =>
            StudyThemeBeforeBlock(blocks[i].unit, i) >= START_NEXT_UNIT_THRESHOLD

\* C24: in a plan generated from the derived initial state (no feedback
\* applied), whenever a PODCAST, FLASHCARD, QUIZ or REVIEW block attributed
\* to unit U appears, the STUDY_THEME minutes scheduled for U in the earlier
\* blocks of the plan total at least 120.
C24_SecondaryAfter120 ==
    state = deriveInitialState(inputs, capacity) => C24_SecondaryAfter120InPlan

\* A plan from the derived state in which a secondary block follows exactly
\* 120 STUDY_THEME minutes of its unit
C24_Witness ==
    /\ state = deriveInitialState(inputs, capacity)
    /\ \E i \in 1..Len(blocks) :
          /\ blocks[i].activity \in SecondaryActivities
          /\ blocks[i].unit > 0
          /\ StudyThemeBeforeBlock(blocks[i].unit, i) = START_NEXT_UNIT_THRESHOLD

(***************************************************************************)
(* Units touched per day                                                   *)
(***************************************************************************)
\* AT-C1: at most this many syllabus units per day
MaxUnitsTouchedPerDay == 3

\* distinctSyllabusUnitsTouched(day): units of the day's blocks other than
\* "Programacion" (-1) and no unit (0)
SyllabusUnitsTouched(d) ==
    { blocks[i].unit : i \in { j \in 1..Len(blocks) : blocks[j].day = d /\ blocks[j].unit > 0 } }

\* C25: on every day of a generated plan the blocks are attributed to at most
\* 3 distinct syllabus units.
C25_AtMostThreeUnitsPerDay ==
    \A i \in 1..Len(blocks) :
        Cardinality(SyllabusUnitsTouched(blocks[i].day)) <= MaxUnitsTouchedPerDay

(***************************************************************************)
(* Capacity of the planning window                                         *)
(***************************************************************************)
\* Sum over day offsets [0, n) of 60 * hours[weekdayIndex(today + d)], with
\* Sunday at index 6 and Monday .. Saturday at 0 .. 5, added in that order
RECURSIVE SumOfEntries(_)
SumOfEntries(n) ==
    IF n <= 0 THEN WholeMinutes(0)
    ELSE CHOOSE sum \in { AddMinutes(before, AvailabilityOfDate(addDays(inputs.today, n - 1))) :
                            before \in { SumOfEntries(n - 1) } } : TRUE

\* max(0, ceil(n / 7) - 2) for n days to the exam, without the division: the
\* w >= 1 with 7 * (w + 1) < n <= 7 * (w + 2), or 0 when n <= 14
WeeksAfterReserve(n) ==
    IF n <= 14 THEN 0
    ELSE CHOOSE w \in 1..n : 7 * (w + 1) < n /\ n <= 7 * (w + 2)

\* C26: calculateCapacity returns effectivePlanningWeeks =
\* max(0, ceil(daysUntilExam / 7) - 2) and availableEffectiveMinutes = the sum
\* of the availability of the days at offsets [0, effectivePlanningWeeks * 7);
\* both are 0 when the exam is fewer than 15 days away or in the past.
C26_CapacityOfWindow ==
    /\ capacity.effectivePlanningWeeks = WeeksAfterReserve(TotalDays)
    /\ capacity.availableEffectiveMinutes = SumOfEntries(7 * WeeksAfterReserve(TotalDays))
    /\ TotalDays < 15 =>
          /\ capacity.effectivePlanningWeeks = 0
          /\ capacity.availableEffectiveMinutes = WholeMinutes(0)

\* 35 days to the exam from a Thursday, with the week of 4.1 h, 14.5, 14.75,
\* 14.5 minutes, 8.2 h, 0 and 14.25 minutes: three planning weeks, whose
\* minutes add up to 2388 in this order of the days
C26_Witness ==
    /\ TotalDays = 35
    /\ CalendarWeekday(inputs.today) = 4
    /\ inputs.avail = <<984, 58, 59, 58, 1968, 0, 57>>
    /\ capacity.effectivePlanningWeeks = 3
    /\ capacity.availableEffectiveMinutes = WholeMinutes(2388)

(***************************************************************************)
(* C27: simulations and their feedback in the unlock-based plan            *)
(***************************************************************************)
SimulationActivities == {"SIM_THEORY", "SIM_CASES", "FINAL_SIM_THEORY", "FINAL_SIM_CASES"}

\* Blocks of the days already pushed to the plan
ClosedBlockIndices == { i \in 1..Len(blocks) : blocks[i].day < Len(days) }

\* C27: in the plan of the unlock-based generatePlan every simulation block
\* (SIM_THEORY, SIM_CASES, FINAL_SIM_THEORY, FINAL_SIM_CASES) is immediately
\* followed, on the same day, by its feedback block (FEEDBACK_THEORY or
\* FEEDBACK_CASES), for every availability pattern.
C27_SimulationFollowedByFeedback ==
    \A i \in ClosedBlockIndices :
        blocks[i].activity \in SimulationActivities =>
            /\ i + 1 <= Len(blocks)
            /\ blocks[i + 1].day = blocks[i].day
            /\ blocks[i + 1].activity = getFeedbackActivity(blocks[i].activity)


(***************************************************************************)
(* C28: the 14-day revisit of studied units in the unlock-based plan       *)
(***************************************************************************)
MinRevisitPlanDays == 15

\* Days up to d with a block on the unit; the last of them is the day the
\* unit was last studied as the plan shows it
DaysWithBlockOn(unit, d) ==
    { blocks[i].day : i \in { j \in 1..Len(blocks) : blocks[j].unit = unit /\ blocks[j].day <= d } }

DaysSinceLastBlock(unit, d) ==
    LET S == DaysWithBlockOn(unit, d)
    IN  d - (CHOOSE x \in S : \A y \in S : y <= x)

\* C28: in a plan of at least 15 days of the unlock-based generatePlan, on no
\* day of the plan has a studied unit gone more than 14 days since its last
\* block: every studied unit is revisited within 14 days while plan days
\* remain.
C28_RevisitWithin14Days ==
    TotalDays >= MinRevisitPlanDays =>
        \A d \in 0..(Len(days) - 1) : \A unit \in 1..UNIT_COUNT :
            DaysWithBlockOn(unit, d) # {} =>
                DaysSinceLastBlock(unit, d) <= REVIEW_14D_HARD_LIMIT


(***************************************************************************)
(* C29: the remaining minutes of the budget during a generation pass       *)
(***************************************************************************)
UnitRemainingFields ==
    {"studyThemeRemaining", "reviewRemaining", "podcastRemaining",
     "flashcardRemaining", "quizRemaining", "totalRemaining"}

StreamRemainingFields == {"theoryRemaining", "casesRemaining", "programmingRemaining"}

\* No remaining field of the budget is below zero
RemainingNonNegative(b) ==
    /\ \A f \in StreamRemainingFields : b[f] >= 0
    /\ \A k \in DOMAIN b.unitTheoryRemaining :
           \A f \in UnitRemainingFields : b.unitTheoryRemaining[k][f] >= 0

\* No remaining field of `after` is above its value in `before`
RemainingNotIncreased(before, after) ==
    /\ \A f \in StreamRemainingFields : after[f] <= before[f]
    /\ \A k \in DOMAIN before.unitTheoryRemaining :
           \A f \in UnitRemainingFields :
               after.unitTheoryRemaining[k][f] <= before.unitTheoryRemaining[k][f]

\* C29: after any sequence of updateGlobalBudget calls of a generation pass,
\* theoryRemaining, casesRemaining, programmingRemaining and every per-unit
\* remaining field are >= 0, and no call increases any of them: a decrement
\* beyond what is left never yields a negative value.
C29_RemainingNeverNegative ==
    /\ [](pc \in {"day", "fill", "done"} => RemainingNonNegative(budget))
    /\ [][pc = "fill" => RemainingNotIncreased(budget, budget')]_vars


(***************************************************************************)
(* C30: the stream chosen by selectActivity from week 3 on                 *)
(***************************************************************************)
\* remaining/planned of a stream as a pair, 0 when nothing is planned
StreamRatio(b, stream) ==
    IF stream = "theory" THEN RatioOf(b.theoryRemaining, b.theoryPlanned)
    ELSE IF stream = "cases" THEN RatioOf(b.casesRemaining, b.casesPlanned)
    ELSE RatioOf(b.programmingRemaining, b.programmingPlanned)

StreamOrder == << "theory", "cases", "programming" >>

\* The stream the guardrails and the ratios call for: cases or programming
\* when last week had none of it and some is left, else the first stream in
\* the order theory, cases, programming whose ratio no other exceeds, and
\* "none" when no ratio is positive.
ExpectedStream(b, c) ==
    IF c.lastWeekCasesMinutes = 0 /\ b.casesRemaining > 0 THEN "cases"
    ELSE IF c.lastWeekProgrammingMinutes = 0 /\ b.programmingRemaining > 0
    THEN "programming"
    ELSE IF \A i \in 1..3 : StreamRatio(b, StreamOrder[i])[1] <= 0 THEN "none"
    ELSE LET greatest(i) ==
                 \A j \in 1..3 :
                     RatioGeq(StreamRatio(b, StreamOrder[i]), StreamRatio(b, StreamOrder[j]))
         IN  StreamOrder[CHOOSE i \in 1..3 :
                             /\ greatest(i)
                             /\ \A j \in 1..(i - 1) : ~greatest(j)]

StageAWeeks == { w \in 1..(capacity.totalWeeks + 1) : w >= 3 }

\* C30: for week index >= 3 selectActivity answers from the cases stream if
\* last week's cases minutes were 0 and casesRemaining > 0; otherwise from
\* programming if last week's programming minutes were 0 and
\* programmingRemaining > 0; otherwise from the stream with the greatest
\* remaining/planned ratio, ties resolved theory before cases before
\* programming; and it returns null when no stream has a positive ratio.
C30_StageAStream ==
    \A w \in StageAWeeks :
        LET act == selectActivity(budget, w, ctx).act
            stream == ExpectedStream(budget, ctx)
        IN  /\ stream = "cases" => act \in CasesActivities
            /\ stream = "programming" => act = "PROGRAMMING_BLOCK"
            /\ stream = "theory" => act = selectTheoryActivity(budget, ctx).act
            /\ stream = "none" => act = "NONE"

\* No guardrail applies, cases and programming tie above theory, and the
\* answer is a cases activity; blocks have been placed since the start.
C30_Witness ==
    /\ blocks # <<>>
    /\ ctx.lastWeekCasesMinutes > 0
    /\ ctx.lastWeekProgrammingMinutes > 0
    /\ budget.theoryRemaining > 0
    /\ budget.casesRemaining > 0
    /\ RatioEq(StreamRatio(budget, "cases"), StreamRatio(budget, "programming"))
    /\ ~RatioGeq(StreamRatio(budget, "theory"), StreamRatio(budget, "cases"))
    /\ selectActivity(budget, 3, ctx).act \in CasesActivities


(***************************************************************************)
(* C31, C32: weekly minimum presence and end-of-week forcing               *)
(***************************************************************************)
WeekMinutesOf(c, stream) ==
    IF stream = "theory" THEN c.thisWeekTheory
    ELSE IF stream = "cases" THEN c.thisWeekCases
    ELSE c.thisWeekProg

StreamRemainingOf(b, stream) ==
    IF stream = "theory" THEN b.theoryRemaining
    ELSE IF stream = "cases" THEN b.casesRemaining
    ELSE b.programmingRemaining

\* A stream is missing when its minutes this week are below the weekly
\* minimum and it has minutes remaining
MissingStream(b, c, stream) ==
    /\ WeekMinutesOf(c, stream) < WEEKLY_MINIMUM_MINUTES
    /\ StreamRemainingOf(b, stream) > 0

ForcingOrder == << "cases", "programming", "theory" >>

LeastScheduled(c, stream) ==
    \A i \in 1..3 : WeekMinutesOf(c, stream) <= WeekMinutesOf(c, ForcingOrder[i])

\* First stream of the forcing order that is missing, "none" without one
FirstMissing(b, c) ==
    LET S == { i \in 1..3 : MissingStream(b, c, ForcingOrder[i]) }
    IN  IF S = {} THEN "none" ELSE ForcingOrder[CHOOSE i \in S : \A j \in S : i <= j]

\* First stream of the forcing order that is missing and least scheduled
FirstMissingLeastScheduled(b, c) ==
    LET S == { i \in 1..3 : /\ MissingStream(b, c, ForcingOrder[i])
                            /\ LeastScheduled(c, ForcingOrder[i]) }
    IN  IF S = {} THEN "none" ELSE ForcingOrder[CHOOSE i \in S : \A j \in S : i <= j]

\* The decision without the end-of-week rule
DecisionWithoutEndOfWeek(b, c) ==
    IF FirstMissingLeastScheduled(b, c) # "none"
    THEN StreamResult(b, c, FirstMissingLeastScheduled(b, c))
    ELSE selectActivity(b, c.weekIndex, c)

AllocatorCalled == pc = "fill" /\ ctx.weekIndex >= 3

\* C31 as stated: for week index >= 3 the end-of-week rule applies exactly
\* when fewer than 120 minutes remain in the week; it then forces the first
\* missing stream in the order cases, programming, theory, whichever stream
\* is least scheduled.
C31_EndOfWeekBelow120 ==
    AllocatorCalled =>
        selectActivityWithSmoothing(budget, ctx) =
            IF ctx.weekRemainingMinutes < 120 /\ FirstMissing(budget, ctx) # "none"
            THEN StreamResult(budget, ctx, FirstMissing(budget, ctx))
            ELSE DecisionWithoutEndOfWeek(budget, ctx)

\* C31 amended: for week index >= 3 the end-of-week rule applies exactly when
\* at most 120 minutes remain in the week; it then forces the first missing
\* stream in the order cases, programming, theory, whichever stream is least
\* scheduled.
C31_EndOfWeekUpTo120 ==
    AllocatorCalled =>
        /\ (ctx.weekRemainingMinutes <= 120 /\ FirstMissing(budget, ctx) # "none")
              => selectActivityWithSmoothing(budget, ctx) =
                     StreamResult(budget, ctx, FirstMissing(budget, ctx))
        /\ ctx.weekRemainingMinutes > 120
              => selectActivityWithSmoothing(budget, ctx) =
                     DecisionWithoutEndOfWeek(budget, ctx)

\* Exactly 120 minutes are left in the week and the first missing stream is
\* forced although another decision would be taken without the rule.
C31_Witness ==
    /\ AllocatorCalled
    /\ ctx.weekRemainingMinutes = 120
    /\ FirstMissing(budget, ctx) # "none"
    /\ ~LeastScheduled(ctx, FirstMissing(budget, ctx))
    /\ selectActivityWithSmoothing(budget, ctx) # DecisionWithoutEndOfWeek(budget, ctx)
    /\ selectActivityWithSmoothing(budget, ctx).act # "NONE"

EndOfWeekRuleFires(b, c) == EndOfWeek(c.weekRemainingMinutes) /\ FirstMissing(b, c) # "none"

\* C32: for week index >= 3, when the end-of-week rule does not fire,
\* selectActivityWithSmoothing forces a stream only if it is missing and also
\* least scheduled this week (ties cases, then programming, then theory); if
\* no missing stream is least scheduled the decision is exactly Stage A's.
C32_LeastScheduledMissing ==
    (AllocatorCalled /\ ~EndOfWeekRuleFires(budget, ctx)) =>
        LET forced == FirstMissingLeastScheduled(budget, ctx)
            r == selectActivityWithSmoothing(budget, ctx)
        IN  /\ forced # "none" => r = StreamResult(budget, ctx, forced)
            /\ forced = "none" => r = selectActivity(budget, ctx.weekIndex, ctx)

\* A stream is missing but not least scheduled, no missing stream is least
\* scheduled, and Stage A's answer is a block of another stream.
C32_Witness ==
    /\ AllocatorCalled
    /\ ~EndOfWeekRuleFires(budget, ctx)
    /\ FirstMissing(budget, ctx) # "none"
    /\ FirstMissingLeastScheduled(budget, ctx) = "none"
    /\ selectActivityWithSmoothing(budget, ctx).act # "NONE"
    /\ selectActivityWithSmoothing(budget, ctx) #
           StreamResult(budget, ctx, FirstMissing(budget, ctx))


(***************************************************************************)
(* C33: case practice before case mocks                                    *)
(***************************************************************************)
\* CASE_PRACTICE minutes of the blocks placed before block i
CasePracticeBefore(i) ==
    BlockMinutes(SelectSeq(SubSeq(blocks, 1, i - 1),
                           LAMBDA b : b.activity = "CASE_PRACTICE"))

\* C33: within one generation pass CASE_MOCK is selected only once
\* casePracticeScheduled has reached 0.7 * casesPlanned, and from the first
\* CASE_MOCK on CASE_PRACTICE is never selected again.
C33_MockAfterPracticeTarget ==
    \A i \in 1..Len(blocks) :
        blocks[i].activity = "CASE_MOCK" =>
            /\ 10 * CasePracticeBefore(i) >= 7 * budget.casesPlanned
            /\ \A j \in (i + 1)..Len(blocks) : blocks[j].activity # "CASE_PRACTICE"

\* A returned plan with practice blocks, then mock blocks
C33_Witness ==
    /\ pc = "done"
    /\ \E i \in 1..Len(blocks) : blocks[i].activity = "CASE_PRACTICE"
    /\ \E i \in 1..Len(blocks) :
          /\ blocks[i].activity = "CASE_MOCK"
          /\ budget.casePracticeScheduled = CasePracticeBefore(i)
    /\ budget.caseMockScheduled > 0
    /\ budget.casesRemaining <= 0


(***************************************************************************)
(* C34: what a SESSION_FEEDBACK event changes                              *)
(***************************************************************************)
Feels == {"too_much", "ok", "more"}

FeelStep(feel) ==
    IF feel = "too_much" THEN 0 - SESSION_FEEDBACK_STEP
    ELSE IF feel = "more" THEN SESSION_FEEDBACK_STEP
    ELSE 0

\* The state after the single event SESSION_FEEDBACK {activity, feel}
AfterSessionFeedback(st, activity, feel) ==
    applyFeedbackEvents(st, << SessionFeedback(activity, feel) >>)

\* C34: a SESSION_FEEDBACK event changes at most the target of the activity it
\* names, by -15 (too_much), 0 (ok) or +15 (more) before clamping into the
\* activity's bounds; the targets of all other activities, every unit's
\* required and done minutes, the global ledger and slack are unchanged.
C34_SessionFeedbackFrame ==
    \A activity \in Activities : \A feel \in Feels :
        LET after == AfterSessionFeedback(state, activity, feel)
            moved == state.prefs[activity] + FeelStep(feel)
            clamped == IF moved < ACTIVITY_BOUNDS[activity].min
                       THEN ACTIVITY_BOUNDS[activity].min
                       ELSE IF moved > ACTIVITY_BOUNDS[activity].max
                       THEN ACTIVITY_BOUNDS[activity].max
                       ELSE moved
        IN  /\ after.prefs[activity] = clamped
            /\ \A other \in Activities \ {activity} :
                   after.prefs[other] = state.prefs[other]
            /\ after.units = state.units
            /\ after.global = state.global
            /\ after.slack = state.slack

\* A fed state with completed case minutes and the STUDY_THEME target at its
\* upper bound: "more" on STUDY_THEME is clamped back, "more" on QUIZ adds 15.
C34_Witness ==
    /\ call.count > 0
    /\ state.global.casesDone > 0
    /\ state.slack # deriveInitialState(inputs, capacity).slack
    /\ state.prefs["STUDY_THEME"] = ACTIVITY_BOUNDS["STUDY_THEME"].max
    /\ AfterSessionFeedback(state, "STUDY_THEME", "more").prefs["STUDY_THEME"] =
           state.prefs["STUDY_THEME"]
    /\ AfterSessionFeedback(state, "QUIZ", "more").prefs["QUIZ"] =
           state.prefs["QUIZ"] + SESSION_FEEDBACK_STEP


(***************************************************************************)
(* C35: STUDY_THEME goes to the lowest unit that has some left             *)
(***************************************************************************)
\* STUDY_THEME minutes of `unit` not yet scheduled before block i: what the
\* state leaves to do less what the earlier blocks of the plan hold
StudyThemeLeftBefore(unit, i) ==
    Max2(0, Max2(0, state.units[unit].required.studyTheme
                        - state.units[unit].done.studyTheme)
              - StudyThemeBeforeBlock(unit, i))

\* C35: every STUDY_THEME block is attributed to the lowest-index unit that
\* still has STUDY_THEME remaining: unit k+1 receives STUDY_THEME only after
\* all required STUDY_THEME minutes of unit k have been scheduled.
C35_LowestUnitWithStudyTheme ==
    \A i \in 1..Len(blocks) :
        blocks[i].activity = "STUDY_THEME" =>
            /\ blocks[i].unit \in DOMAIN state.units
            /\ StudyThemeLeftBefore(blocks[i].unit, i) > 0
            /\ \A lower \in 1..(blocks[i].unit - 1) : StudyThemeLeftBefore(lower, i) = 0

\* A returned plan in which the last unit is studied after the plan has
\* scheduled all 240 minutes of the unit before it
C35_Witness ==
    /\ pc = "done"
    /\ state = deriveInitialState(inputs, capacity)
    /\ \E i \in 1..Len(blocks) :
          /\ blocks[i].activity = "STUDY_THEME"
          /\ blocks[i].unit = inputs.unitsCount
          /\ StudyThemeBeforeBlock(blocks[i].unit - 1, i) = STUDY_THEME_MINUTES
          /\ StudyThemeBeforeBlock(blocks[i].unit, i) = 0


(***************************************************************************)
(* C36: a plan holds no more of a unit's activity than the state leaves    *)
(***************************************************************************)
\* required - done of the unit's activity in the state the plan starts from
LeftToDo(unit, activity) ==
    state.units[unit].required[DoneField(activity)]
        - state.units[unit].done[DoneField(activity)]

\* C36: for every unit U and theory activity A the minutes of the A blocks
\* attributed to U in the plan are at most required[U][A] - done[U][A] of the
\* state the plan was generated from (from the derived state: at most 240
\* STUDY_THEME, 60 REVIEW, 60 PODCAST, 60 FLASHCARD and 90 QUIZ minutes per
\* unit).
C36_UnitActivityWithinRequired ==
    \A unit \in DOMAIN state.units : \A activity \in TheoryActivities :
        UnitActivityMinutes(blocks, activity, unit) <= Max2(0, LeftToDo(unit, activity))


(***************************************************************************)
(* C37: the unit a theory block is attributed to                           *)
(***************************************************************************)
\* The unit has minutes of the activity left and passes the activity's gate:
\* started or today's STUDY_THEME unit for a secondary activity, 240 minutes
\* of STUDY_THEME for REVIEW
SelectableFor(b, c, unit, activity) ==
    /\ unit \in DOMAIN b.unitTheoryRemaining
    /\ LET u == b.unitTheoryRemaining[unit]
       IN  /\ u[RemainingField(activity)] > 0
           /\ activity \in SecondaryActivities
                 => (u.studyThemeDone > 0 \/ unit = c.studyThemeTodayUnit)
           /\ activity = "REVIEW" => u.studyThemeDone >= STUDY_THEME_COMPLETE_THRESHOLD

\* C37: whenever the allocator returns a theory activity A, the unit that
\* getCurrentUnitKey then resolves (theory-unit override, else today's locked
\* unit, else first unit with remaining) has remaining minutes > 0 for A and
\* satisfies A's gate, and an override left behind by an earlier call has no
\* part in it: the answer and the unit are the same whatever the override
\* was before the call.
C37_AttributionUnitSelectable ==
    pc = "fill" =>
        LET sel == selectActivityWithSmoothing(budget, ctx)
        IN  sel.act \in TheoryActivities =>
                /\ SelectableFor(budget, sel.ctx, getCurrentUnitKey(budget, sel.ctx), sel.act)
                /\ \A stale \in {0} \cup DOMAIN budget.unitTheoryRemaining :
                       LET other == selectActivityWithSmoothing(
                                        budget, [ctx EXCEPT !.theoryUnitOverride = stale])
                       IN  /\ other.act = sel.act
                           /\ getCurrentUnitKey(budget, other.ctx) =
                                  getCurrentUnitKey(budget, sel.ctx)

\* The context still holds the override of an earlier call, on another unit
\* than the one the present call resolves, which is today's STUDY_THEME unit
C37_Witness ==
    /\ pc = "fill"
    /\ ctx.theoryUnitOverride # 0
    /\ ctx.studyThemeTodayUnit # 0
    /\ LET sel == selectActivityWithSmoothing(budget, ctx)
       IN  /\ sel.act \in SecondaryActivities
           /\ getCurrentUnitKey(budget, sel.ctx) = ctx.studyThemeTodayUnit
           /\ getCurrentUnitKey(budget, sel.ctx) # ctx.theoryUnitOverride

(***************************************************************************)
(* C38: a day is never over-filled                                         *)
(***************************************************************************)
\* Minutes of the blocks placed on the i-th day of the plan
ScheduledOnDay(i) == BlockMinutes(BlocksOfDay(i - 1))

\* C38: on every day of a generated plan the block durations sum to no more
\* than the day's available minutes, and the minutes scheduled in the whole
\* plan do not exceed capacity.availableEffectiveMinutes.
C38_DayWithinAvailable ==
    pc \in {"day", "fill", "done"} =>
        /\ \A i \in 1..Len(days) : ScheduledOnDay(i) <= days[i].available
        /\ AtMost(BlockMinutes(blocks), capacity.availableEffectiveMinutes)

(***************************************************************************)
(* C39: a null answer of the allocator                                     *)
(***************************************************************************)
\* The day builder is about to ask the allocator in week 3 or later, and the
\* allocator answers null.
AllocatorReturnsNull ==
    /\ pc = "fill"
    /\ remaining >= MIN_BLOCK_DURATION
    /\ ctx.weekIndex >= 3
    /\ selectActivityWithSmoothing(budget, ctx).act = "NONE"

\* C39: in week 3 or later the allocator returns null only when nothing is
\* schedulable: casesRemaining <= 0, programmingRemaining <= 0 and
\* selectTheoryActivity has no activity for the day.
C39_NullOnlyWhenNothingSchedulable ==
    AllocatorReturnsNull =>
        /\ budget.casesRemaining <= 0
        /\ budget.programmingRemaining <= 0
        /\ selectTheoryActivity(budget, ctx).act = "NONE"

(***************************************************************************)
(* C40: feedback applied in two calls                                      *)
(***************************************************************************)
\* Longest list of events applied in one call when two lists are joined
MaxComposedEvents == 24

\* The parts of a StudentState that applyFeedbackEvents writes
SameStudentState(a, b) ==
    /\ a.units = b.units
    /\ a.global = b.global
    /\ a.prefs = b.prefs
    /\ a.slack = b.slack

\* C40: applying a list A and then a list B to a state gives the same units,
\* global ledger, preferences and slack as applying A followed by B at once.
C40_FeedbackComposes ==
    pc \in {"derived", "fed"} =>
        \A A \in FeedbackLists : \A B \in FeedbackLists :
            Len(A) + Len(B) <= MaxComposedEvents =>
            SameStudentState(applyFeedbackEvents(applyFeedbackEvents(state, A), B),
                             applyFeedbackEvents(state, A \o B))

\* A state that earlier feedback has already changed, and two lists of which
\* each changes units or ledger, preferences and slack of what it is applied to.
C40_Witness ==
    /\ pc = "fed"
    /\ call.count = MaxCalls
    /\ call.input # call.result
    /\ \E A \in FeedbackLists : \E B \in FeedbackLists :
          LET mid == applyFeedbackEvents(state, A)
              end == applyFeedbackEvents(mid, B)
          IN  /\ Len(A) + Len(B) <= MaxComposedEvents
              /\ mid.slack # state.slack
              /\ end.slack # mid.slack
              /\ mid.prefs # state.prefs
              /\ end.prefs # mid.prefs
              /\ end.units # state.units
              /\ end.global # state.global

====
